---- MODULE Spec2Model ----
(***************************************************************************)
(* Multimodal search and ranking engine of akashi-api                      *)
(* (app/services/search_service.py): the five source adapters, the result  *)
(* merger, the Reciprocal Rank Fusion ranker and the orchestrator          *)
(* SearchService.search, over a small relational store.                    *)
(*                                                                         *)
(* Numbers.  Source-local scores (ts_rank, keyword confidence, face        *)
(* similarity) are kept in tenths: 8 stands for 0.8, 10 for 1.0.           *)
(* combined_score is kept exactly, as an integer multiple of               *)
(* 1 / (5 * ScoreLcm): see ScoreLcm.                                       *)
(***************************************************************************)
EXTENDS Integers, Sequences, FiniteSets, TLC

VARIABLES
    store,             \* the rows of the source tables that match the query text
    request,           \* the MultimodalSearchRequest being served (with tenant_id)
    pc,                \* position of SearchService.search
    results_by_asset,  \* dict asset_id -> aggregate, in insertion order
    modes_used,        \* list of mode names
    returned,          \* per source: the candidate list its adapter returned
    invoked,           \* the sources whose adapter search() has called
    raised,            \* the source whose query or dependency raised, or "none"
    failure,           \* the source whose exception left search(), or "none"
    sorted_results,    \* the full ranked list (line 108)
    response,          \* the MultimodalSearchResponse, or NoResponse
    calls,             \* responses of the earlier calls of a paging session
    keyword_rows,      \* asset_keywords rows whose keyword matches the partial query
    person_rows,       \* persons rows whose name matches the partial query
    suggest_request,   \* tenant_id and limit of the get_suggestions call
    suggest_pc,        \* position of SearchService.get_suggestions
    suggestions,       \* the list get_suggestions builds and returns
    collection_row,    \* the committed collections row of collection 1
    collection_items,  \* the committed collection_items rows of collection 1
    next_item_id,      \* stands for gen_random_uuid() of collection_items.id
    item_sessions,     \* per database session: the items request it is serving
    item_requests,     \* number of items requests begun
    users,             \* the committed users rows
    next_user_id,      \* stands for gen_random_uuid() of users.id
    register_sessions, \* per database session: the register request it is serving
    register_requests, \* number of register requests begun
    refresh_tokens,    \* the committed refresh_tokens rows
    next_token_hash,   \* stands for the hash of the next refresh token issued
    token_sessions,    \* per database session: the refresh or logout request it is serving
    token_requests,    \* number of refresh and logout requests begun
    exchanged,         \* per token hash: the /refresh calls answered 200 for it
    limiter_window,    \* the sorted set at the identifier's key: its members
    clock,             \* the wall clock, in seconds
    limiter_sessions,  \* per caller: the is_allowed call it is in
    limiter_calls,     \* number of is_allowed calls begun
    admitted,          \* the timestamps of the calls is_allowed admitted
    jobs,              \* the committed ingest_jobs rows, by job id
    asset_status,      \* the committed status of each asset
    job_sessions,      \* per database session: the process-pending request it serves
    job_requests,      \* number of process-pending and retry requests begun
    retried            \* the last retry_job request, the row it found and its answer

searchVars == <<store, request, pc, results_by_asset, modes_used, returned,
                invoked, raised, failure, sorted_results, response, calls>>

suggestVars == <<keyword_rows, person_rows, suggest_request, suggest_pc,
                 suggestions>>

collectionVars == <<collection_row, collection_items, next_item_id,
                    item_sessions, item_requests>>

registerVars == <<users, next_user_id, register_sessions, register_requests>>

tokenVars == <<refresh_tokens, next_token_hash, token_sessions, token_requests,
               exchanged>>

limiterVars == <<limiter_window, clock, limiter_sessions, limiter_calls,
                 admitted>>

jobVars == <<jobs, asset_status, job_sessions, job_requests, retried>>

nonSearchVars ==
    <<suggestVars,
      collectionVars,
      registerVars,
      tokenVars,
      limiterVars,
      jobVars>>

nonSuggestVars ==
    <<searchVars,
      collectionVars,
      registerVars,
      tokenVars,
      limiterVars,
      jobVars>>

nonCollectionVars ==
    <<searchVars,
      suggestVars,
      registerVars,
      tokenVars,
      limiterVars,
      jobVars>>

nonRegisterVars ==
    <<searchVars,
      suggestVars,
      collectionVars,
      tokenVars,
      limiterVars,
      jobVars>>

nonTokenVars ==
    <<searchVars,
      suggestVars,
      collectionVars,
      registerVars,
      limiterVars,
      jobVars>>

nonLimiterVars ==
    <<searchVars,
      suggestVars,
      collectionVars,
      registerVars,
      tokenVars,
      jobVars>>

nonJobVars ==
    <<searchVars,
      suggestVars,
      collectionVars,
      registerVars,
      tokenVars,
      limiterVars>>

vars ==
    <<searchVars,
      suggestVars,
      collectionVars,
      registerVars,
      tokenVars,
      limiterVars,
      jobVars>>

-----------------------------------------------------------------------------
(* Bounds *)

\* rows of the store (over all source tables) that match the query
MaxRows == 3
\* largest offset and largest explicit limit a request asks for
MaxOffset == 2
MaxLimit == 2
\* calls of one paging session over unchanged data, and the rows of its store
MaxCalls == 3
MaxSessionRows == 2
\* largest limit a get_suggestions call asks for
MaxSuggestLimit == 4
\* items requests on one collection
MaxItemRequests == 3
\* register requests
MaxRegisterRequests == 3
\* rows of the store while a search and a suggestions request run together
MaxReadOnlyRows == 1
\* refresh, logout and logout-all requests
MaxTokenRequests == 3
\* is_allowed calls for one identifier
MaxLimiterCalls == 4
\* seconds the wall clock runs
MaxClock == 6
\* process-pending requests
MaxJobRequests == 3
\* the limit parameter of process-pending
MaxJobLimit == 2
\* retry requests
MaxRetryRequests == 2

-----------------------------------------------------------------------------
(* Values *)

\* Python None / SQL NULL of an integer column or field
NoneInt == -1
\* Python None of an enum or string field; a key absent from a result dict
NoneStr == "none"
\* a list-valued filter (collections, persons) left None is the empty set

Sources == <<"transcription", "scene", "keyword", "metadata", "face">>

\* schemas/search.py: limit default and range, offset range
DefaultLimit == 20

\* SearchService.__init__: self.rrf_k
rrf_k == 60

\* LIMIT of the full-text adapters, of each keyword sub-query and of the
\* face query
TextLimit == 100
KeywordLimit == 50
FaceLimit == 50

\* minimum similarity of a face match, in tenths (0.5)
FaceThreshold == 5

\* score of a keyword row whose rank is falsy, in tenths (0.5)
KeywordFallback == 5

\* rank of a manually entered keyword, in tenths (1.0 as rank)
ManualRank == 10

-----------------------------------------------------------------------------
(* The store: assets and the rows of the six source tables.  The query     *)
(* text is fixed; a row of Universe is a row whose text matches it (the    *)
(* search_vector @@ plainto_tsquery and ILIKE conditions), so a store is   *)
(* the set of matching rows.                                               *)

\* the assets table: the columns the adapters select, and the collections
\* and persons an asset is linked to
Asset(a) ==
    CASE a = 1 -> [tenant_id |-> 1, asset_type |-> "video", status |-> "available",
                   created_at |-> 3, duration_ms |-> 5, description |-> "d1",
                   collections |-> {1}, persons |-> {1}]
      [] a = 2 -> [tenant_id |-> 1, asset_type |-> "image", status |-> "available",
                   created_at |-> 1, duration_ms |-> NoneInt, description |-> "d2",
                   collections |-> {}, persons |-> {}]
      [] a = 3 -> [tenant_id |-> 1, asset_type |-> "video", status |-> "processing",
                   created_at |-> 2, duration_ms |-> 2, description |-> NoneStr,
                   collections |-> {1}, persons |-> {}]
      [] OTHER -> [tenant_id |-> 2, asset_type |-> "video", status |-> "available",
                   created_at |-> 2, duration_ms |-> 5, description |-> "d4",
                   collections |-> {}, persons |-> {}]

Row(id, tbl, a, rank) ==
    [id |-> id, tbl |-> tbl, asset_id |-> a, tenant_id |-> Asset(a).tenant_id,
     rank |-> rank]

\* every row a store may hold; rank is ts_rank, confidence or similarity
Universe ==
    { Row(1, "asset_transcriptions", 1, 8),
      Row(2, "asset_transcriptions", 2, 3),
      Row(3, "asset_scene_descriptions", 1, 3),
      Row(4, "asset_keywords", 1, ManualRank),
      Row(5, "asset_keywords", 2, ManualRank),
      Row(6, "ai_extracted_keywords", 3, 0),
      Row(7, "ai_extracted_keywords", 1, 8),
      Row(8, "assets", 1, 8),
      Row(9, "assets", 2, 3),
      Row(10, "assets", 3, 3),
      Row(11, "assets", 4, 8),
      Row(12, "asset_faces", 1, 9),
      Row(13, "asset_faces", 2, 5),
      Row(14, "asset_faces", 3, 4),
      Row(15, "asset_transcriptions", 4, 8),
      Row(16, "asset_faces", 4, 9) }

Stores == { s \in SUBSET Universe : Cardinality(s) <= MaxRows }

-----------------------------------------------------------------------------
(* Requests *)

Modes == {"transcription", "face", "scene", "keywords", "metadata"}

AllModes == [m \in Modes |-> TRUE]

NoFilters ==
    [asset_type |-> NoneStr, status |-> NoneStr, date_from |-> NoneInt,
     date_to |-> NoneInt, collections |-> {}, persons |-> {},
     min_duration_ms |-> NoneInt, max_duration_ms |-> NoneInt]

\* the filter sets of the requests: one filter set at a time
FilterSets ==
    { [NoFilters EXCEPT !.asset_type = "video"],
      [NoFilters EXCEPT !.status = "available"],
      [NoFilters EXCEPT !.date_from = 2],
      [NoFilters EXCEPT !.date_to = 2],
      [NoFilters EXCEPT !.collections = {1}],
      [NoFilters EXCEPT !.persons = {1}],
      [NoFilters EXCEPT !.min_duration_ms = 3],
      [NoFilters EXCEPT !.max_duration_ms = 3],
      [NoFilters EXCEPT !.max_duration_ms = 0] }

\* face_image: absent, an image with a face, an image without one
FaceImages == {NoneStr, "face", "noface"}

\* SearchMode: every flag on, or one flag off
ModeSets == {AllModes} \cup { [AllModes EXCEPT ![m] = FALSE] : m \in Modes }

\* SearchMode with only the metadata and keyword flags on
MetadataAndKeywords ==
    [m \in Modes |-> m \in {"metadata", "keywords"}]

Pages == (0..MaxOffset) \X (1..MaxLimit)

BaseRequest ==
    [tenant_id |-> 1, modes |-> AllModes, face_image |-> "face",
     filters |-> NoFilters, limit |-> DefaultLimit, offset |-> 0]

Requests ==
    { [BaseRequest EXCEPT !.modes = m, !.face_image = i] :
          m \in ModeSets, i \in FaceImages }
    \cup { [BaseRequest EXCEPT !.filters = f] : f \in FilterSets }
    \cup { [BaseRequest EXCEPT !.offset = p[1], !.limit = p[2]] : p \in Pages }
    \cup { [BaseRequest EXCEPT !.tenant_id = 2] }
    \cup { [BaseRequest EXCEPT !.modes = MetadataAndKeywords,
                                !.face_image = NoneStr, !.filters = f] :
               f \in {NoFilters, [NoFilters EXCEPT !.asset_type = "video"]} }

NoRequest == [BaseRequest EXCEPT !.tenant_id = 0]

-----------------------------------------------------------------------------
(* Arithmetic *)

Min(a, b) == IF a <= b THEN a ELSE b

RECURSIVE Gcd(_, _)
Gcd(a, b) == IF b = 0 THEN a ELSE Gcd(b, a % b)

\* least common multiple of rrf_k + 1 .. rrf_k + n
RECURSIVE LcmUpTo(_)
LcmUpTo(n) ==
    IF n = 0 THEN 1
    ELSE LET l == LcmUpTo(n - 1)
         IN  (l * (rrf_k + n)) \div Gcd(l, rrf_k + n)

\* An entity has at most MaxRows matches, so every 1 / (rrf_k + rank) it sums
\* is a whole multiple of 1 / ScoreLcm; the boost 1 + (N - 1) * 0.2 is a
\* whole multiple of 1 / 5.
ScoreLcm == LcmUpTo(MaxRows)

-----------------------------------------------------------------------------
(* Query building and execution *)

\* Python truthiness of an optional int (None and 0 are falsy), of an
\* optional enum or datetime (only None is falsy)
TruthyInt(v) == v # NoneInt /\ v # 0
TruthyEnum(v) == v # NoneStr
TruthyDate(v) == v # NoneInt

\* _add_filters: the AND conditions appended to the WHERE clause
AddFilters(sql, filters) ==
    sql \cup (IF TruthyEnum(filters.asset_type) THEN {"asset_type"} ELSE {})
        \cup (IF TruthyEnum(filters.status) THEN {"status"} ELSE {})
        \cup (IF TruthyDate(filters.date_from) THEN {"date_from"} ELSE {})
        \cup (IF TruthyDate(filters.date_to) THEN {"date_to"} ELSE {})
        \cup (IF TruthyInt(filters.min_duration_ms) THEN {"min_duration"} ELSE {})
        \cup (IF TruthyInt(filters.max_duration_ms) THEN {"max_duration"} ELSE {})

\* the conditions with "tenant_id = :tenant_id" always true
Condition_AnyTenant(c, row, params) ==
    LET a == Asset(row.asset_id)
    IN  CASE c = "tenant_id" -> TRUE
          [] c = "asset_type" -> a.asset_type = params.filters.asset_type
          [] c = "status" -> a.status = params.filters.status
          [] c = "date_from" -> a.created_at >= params.filters.date_from
          [] c = "date_to" -> a.created_at <= params.filters.date_to
          [] c = "min_duration" ->
                a.duration_ms # NoneInt /\ a.duration_ms >= params.filters.min_duration_ms
          [] c = "max_duration" ->
                a.duration_ms # NoneInt /\ a.duration_ms <= params.filters.max_duration_ms

\* one condition of a WHERE clause on a row joined with its asset a; a
\* comparison with NULL is not true
Condition(c, row, params) ==
    LET a == Asset(row.asset_id)
    IN  CASE c = "tenant_id" -> row.tenant_id = params.tenant_id
          [] c = "asset_type" -> a.asset_type = params.filters.asset_type
          [] c = "status" -> a.status = params.filters.status
          [] c = "date_from" -> a.created_at >= params.filters.date_from
          [] c = "date_to" -> a.created_at <= params.filters.date_to
          [] c = "min_duration" ->
                a.duration_ms # NoneInt /\ a.duration_ms >= params.filters.min_duration_ms
          [] c = "max_duration" ->
                a.duration_ms # NoneInt /\ a.duration_ms <= params.filters.max_duration_ms

\* the rows of table tbl that satisfy every condition of sql
Select(tbl, sql, params) ==
    { r \in store : r.tbl = tbl /\ \A c \in sql : Condition(c, r, params) }

\* the orders in which a query without ORDER BY may return rows S
AnyOrder(S) ==
    { f \in [1..Cardinality(S) -> S] :
          \A i, j \in 1..Cardinality(S) : i # j => f[i] # f[j] }

\* ORDER BY rank DESC (and ORDER BY distance): rows of equal rank in any order
OrderByRankDesc(S) ==
    { f \in AnyOrder(S) :
          \A i, j \in 1..Cardinality(S) : i < j => f[i].rank >= f[j].rank }

\* LIMIT n
Limit(rows, n) == SubSeq(rows, 1, Min(n, Len(rows)))

-----------------------------------------------------------------------------
(* Source adapters: the candidate lists an adapter may return *)

MatchInfo(type, row, score) == [type |-> type, row |-> row.id, score |-> score]

\* the result dict of a row; the scene, keyword and face adapters select no
\* a.description, so their dicts have no "description" key
ResultDict(type, row, description, score) ==
    LET a == Asset(row.asset_id)
    IN  [asset_id |-> row.asset_id,
         description |-> description,
         asset_type |-> a.asset_type,
         status |-> a.status,
         duration_ms |-> a.duration_ms,
         created_at |-> a.created_at,
         match |-> MatchInfo(type, row, score),
         rank |-> score]

TranscriptionDict(row) ==
    ResultDict("transcription", row, Asset(row.asset_id).description, row.rank)

TranscriptionDicts(rows) == [i \in 1..Len(rows) |-> TranscriptionDict(rows[i])]

SearchTranscriptions(req) ==
    LET sql == AddFilters({"tenant_id"}, req.filters)
    IN  { TranscriptionDicts(Limit(rows, TextLimit)) :
              rows \in OrderByRankDesc(Select("asset_transcriptions", sql, req)) }

SceneDict(row) == ResultDict("scene", row, NoneStr, row.rank)

SceneDicts(rows) == [i \in 1..Len(rows) |-> SceneDict(rows[i])]

SearchScenes(req) ==
    LET sql == AddFilters({"tenant_id"}, req.filters)
    IN  { SceneDicts(Limit(rows, TextLimit)) :
              rows \in OrderByRankDesc(Select("asset_scene_descriptions", sql, req)) }

\* float(row.rank) if row.rank else 0.5
KeywordScore(rank) == IF TruthyInt(rank) THEN rank ELSE KeywordFallback

KeywordDict(row) == ResultDict("keyword", row, NoneStr, KeywordScore(row.rank))

KeywordDicts(rows) == [i \in 1..Len(rows) |-> KeywordDict(rows[i])]

SearchKeywords(req) ==
    LET sql == AddFilters({"tenant_id"}, req.filters)
    IN  { KeywordDicts(Limit(rows1, KeywordLimit))
              \o KeywordDicts(Limit(rows2, KeywordLimit)) :
              rows1 \in AnyOrder(Select("asset_keywords", sql, req)),
              rows2 \in AnyOrder(Select("ai_extracted_keywords", sql, req)) }

MetadataDict(row) ==
    ResultDict("metadata", row, Asset(row.asset_id).description, row.rank)

MetadataDicts(rows) == [i \in 1..Len(rows) |-> MetadataDict(rows[i])]

SearchMetadata(req) ==
    LET sql == AddFilters({"tenant_id"}, req.filters)
    IN  { MetadataDicts(Limit(rows, TextLimit)) :
              rows \in OrderByRankDesc(Select("assets", sql, req)) }

\* FaceService.get_embedding_from_image raises ValueError when the image
\* holds no face
EmbeddingRaises(image) == image = "noface"

FaceDict(row) == ResultDict("face", row, NoneStr, row.rank)

FaceDicts(rows) == [i \in 1..Len(rows) |-> FaceDict(rows[i])]

\* the face query without "if row.similarity >= 0.5"
SearchFaces_NoThreshold(req) ==
    { FaceDicts(Limit(rows, FaceLimit)) :
          rows \in OrderByRankDesc(Select("asset_faces", {"tenant_id"}, req)) }

\* the face query has the tenant condition only; the similarity threshold
\* is applied to the rows fetched
SearchFaces(req) ==
    { SelectSeq(FaceDicts(Limit(rows, FaceLimit)),
                LAMBDA d : d.rank >= FaceThreshold) :
          rows \in OrderByRankDesc(Select("asset_faces", {"tenant_id"}, req)) }

\* What an adapter call comes to when its query raised or not.  The text
\* adapters have no handler: the exception leaves the adapter.
AdapterOutcome(error, results) ==
    [error |-> error, raises |-> error, results |-> IF error THEN <<>> ELSE results]

\* mutant of FaceOutcome: no try/except around the embedding and the query
FaceOutcome_NoHandler(error, results) == AdapterOutcome(error, results)

\* _search_faces: try ... except Exception: return []
FaceOutcome(error, results) ==
    [error |-> error, raises |-> FALSE, results |-> IF error THEN <<>> ELSE results]

-----------------------------------------------------------------------------
(* Result merger *)

NoRanks == [x \in {} |-> 0]

\* index of asset_id in the dict, 0 when it is no key
IndexOf(results, asset_id) ==
    IF \E i \in 1..Len(results) : results[i].asset_id = asset_id
    THEN CHOOSE i \in 1..Len(results) : results[i].asset_id = asset_id
    ELSE 0

NewEntry(result) ==
    [asset_id |-> result.asset_id,
     description |-> result.description,
     asset_type |-> result.asset_type,
     status |-> result.status,
     duration_ms |-> result.duration_ms,
     created_at |-> result.created_at,
     matches |-> <<>>,
     ranks |-> NoRanks,
     combined_score |-> 0]

\* mutant of MergeOne: no "asset_id not in results_by_asset" test, every
\* candidate opens an entry of its own
MergeOne_NoLookup(results, result, source_type) ==
    Append(results,
           [NewEntry(result) EXCEPT !.matches = <<result.match>>,
                                    !.ranks = [s \in {source_type} |-> result.rank]])

\* the loop body keeping one match per source and entity
MergeOne_OnePerSource(results, result, source_type) ==
    LET known == IndexOf(results, result.asset_id)
        with == IF known = 0 THEN Append(results, NewEntry(result)) ELSE results
        i == IF known = 0 THEN Len(with) ELSE known
        e == with[i]
    IN  IF source_type \in DOMAIN e.ranks THEN with
        ELSE [with EXCEPT ![i] =
                 [e EXCEPT !.matches = Append(e.matches, result.match),
                           !.ranks = [s \in DOMAIN e.ranks \cup {source_type} |->
                                         IF s = source_type THEN result.rank
                                         ELSE e.ranks[s]]]]

\* the body of the loop of _merge_results
MergeOne(results, result, source_type) ==
    LET known == IndexOf(results, result.asset_id)
        with == IF known = 0 THEN Append(results, NewEntry(result)) ELSE results
        i == IF known = 0 THEN Len(with) ELSE known
        e == with[i]
    IN  [with EXCEPT ![i] =
            [e EXCEPT !.matches = Append(e.matches, result.match),
                      !.ranks = [s \in DOMAIN e.ranks \cup {source_type} |->
                                    IF s = source_type THEN result.rank ELSE e.ranks[s]]]]

\* _merge_results
RECURSIVE MergeResults(_, _, _)
MergeResults(results, new_results, source_type) ==
    IF new_results = <<>> THEN results
    ELSE MergeResults(MergeOne(results, Head(new_results), source_type),
                      Tail(new_results), source_type)

-----------------------------------------------------------------------------
(* Fusion ranker *)

\* sorted(matches, key=lambda m: m.score, reverse=True): a stable sort
RECURSIVE SortMatches(_)
SortMatches(matches) ==
    IF matches = <<>> THEN <<>>
    ELSE LET n == Len(matches)
             rest == SortMatches(SubSeq(matches, 1, n - 1))
             m == matches[n]
             k == Cardinality({ i \in 1..Len(rest) : rest[i].score >= m.score })
         IN  SubSeq(rest, 1, k) \o <<m>> \o SubSeq(rest, k + 1, Len(rest))

\* the loop over enumerate(sorted_matches, 1), in units of 1 / ScoreLcm
RECURSIVE RrfSum(_, _)
RrfSum(sorted_matches, rank) ==
    IF sorted_matches = <<>> THEN 0
    ELSE ScoreLcm \div (rrf_k + rank) + RrfSum(Tail(sorted_matches), rank + 1)

\* mutant of CalculateRrfScore: enumerate(sorted_matches) counts from 0
CalculateRrfScore_RankFromZero(matches) ==
    IF matches = <<>> THEN 0
    ELSE RrfSum(SortMatches(matches), 0) * (5 + (Len(matches) - 1))

\* the score with every reciprocal rank weighted by the score of its match
RECURSIVE WeightedSum(_, _)
WeightedSum(sorted_matches, rank) ==
    IF sorted_matches = <<>> THEN 0
    ELSE Head(sorted_matches).score * (ScoreLcm \div (rrf_k + rank))
             + WeightedSum(Tail(sorted_matches), rank + 1)

CalculateRrfScore_Weighted(matches) ==
    IF matches = <<>> THEN 0
    ELSE WeightedSum(SortMatches(matches), 1) * (5 + (Len(matches) - 1))

\* the reciprocal rank of the best match only, without sum or boost
CalculateRrfScore_BestRankOnly(matches) ==
    IF matches = <<>> THEN 0 ELSE (ScoreLcm \div (rrf_k + 1)) * 5

\* _calculate_rrf_score, in units of 1 / (5 * ScoreLcm): source_boost is
\* (5 + (len(matches) - 1)) / 5
CalculateRrfScore(matches) ==
    IF matches = <<>> THEN 0
    ELSE RrfSum(SortMatches(matches), 1) * (5 + (Len(matches) - 1))

\* mutant of SortResults: reverse=True left out
RECURSIVE SortResults_Ascending(_)
SortResults_Ascending(results) ==
    IF results = <<>> THEN <<>>
    ELSE LET n == Len(results)
             rest == SortResults_Ascending(SubSeq(results, 1, n - 1))
             r == results[n]
             k == Cardinality({ i \in 1..Len(rest) :
                                  rest[i].combined_score <= r.combined_score })
         IN  SubSeq(rest, 1, k) \o <<r>> \o SubSeq(rest, k + 1, Len(rest))

\* sorted(results_by_asset.values(), key=combined_score, reverse=True): a
\* stable sort, so entries of equal score keep their insertion order
RECURSIVE SortResults(_)
SortResults(results) ==
    IF results = <<>> THEN <<>>
    ELSE LET n == Len(results)
             rest == SortResults(SubSeq(results, 1, n - 1))
             r == results[n]
             k == Cardinality({ i \in 1..Len(rest) :
                                  rest[i].combined_score >= r.combined_score })
         IN  SubSeq(rest, 1, k) \o <<r>> \o SubSeq(rest, k + 1, Len(rest))

\* mutant of Paginate: sorted_results[offset : limit]
Paginate_EndAtLimit(results, offset, limit) ==
    SubSeq(results, offset + 1, Min(limit, Len(results)))

\* sorted_results[offset : offset + limit]
Paginate(results, offset, limit) ==
    SubSeq(results, offset + 1, Min(offset + limit, Len(results)))

\* MultimodalSearchResult(...)
FormatResult(r) ==
    [asset_id |-> r.asset_id,
     description |-> r.description,
     asset_type |-> r.asset_type,
     status |-> r.status,
     duration_ms |-> r.duration_ms,
     matches |-> r.matches,
     combined_score |-> r.combined_score,
     created_at |-> r.created_at]

-----------------------------------------------------------------------------
(* SearchService.search *)

SourceSet == { Sources[i] : i \in 1..Len(Sources) }

NoResponse == [total |-> NoneInt, limit |-> 0, offset |-> 0, results |-> <<>>,
               modes_used |-> <<>>]

NotReturned == [s \in SourceSet |-> <<>>]

\* no get_suggestions call
NoSuggestRequest == [tenant_id |-> 0, limit |-> 0]

SuggestIdle ==
    /\ keyword_rows = {}
    /\ person_rows = {}
    /\ suggest_request = NoSuggestRequest
    /\ suggest_pc = "idle"
    /\ suggestions = <<>>

\* database sessions, one per request in progress
SessionIds == {"s1", "s2"}

\* a session that serves no items request
NoItemRequest ==
    [op |-> NoneStr, collection_id |-> 0, asset_ids |-> <<>>, user |-> NoneStr]

IdleItemSession ==
    [pc |-> "idle", request |-> NoItemRequest, loaded_count |-> 0,
     item_count |-> 0, added |-> <<>>, deleted |-> {}, status |-> 0]

\* POST /collections: a new collection of user "owner", item_count default 0
NewCollection(is_locked) ==
    [item_count |-> 0, is_locked |-> is_locked, created_by |-> "owner"]

CollectionIdle ==
    /\ collection_row = NewCollection(FALSE)
    /\ collection_items = {}
    /\ next_item_id = 1
    /\ item_sessions = [s \in SessionIds |-> IdleItemSession]
    /\ item_requests = 0

\* a session that serves no register request
NoRegisterRequest == [email |-> NoneStr, tenant_code |-> NoneStr]

IdleRegisterSession ==
    [pc |-> "idle", request |-> NoRegisterRequest, tenant_id |-> 0, status |-> 0]

RegisterIdle ==
    /\ users = {}
    /\ next_user_id = 1
    /\ register_sessions = [s \in SessionIds |-> IdleRegisterSession]
    /\ register_requests = 0

\* a session that serves no refresh or logout request
NoTokenRequest == [op |-> NoneStr, token_hash |-> 0, user_id |-> 0]

IdleTokenSession ==
    [pc |-> "idle", request |-> NoTokenRequest, found |-> {}, status |-> 0]

\* a RefreshToken row as login stores it; expired stands for
\* now > expires_at
RefreshToken(token_hash, user_id, expired) ==
    [token_hash |-> token_hash, user_id |-> user_id, is_revoked |-> FALSE,
     revoked_reason |-> NoneStr, expired |-> expired]

TokenIdle ==
    /\ refresh_tokens = {}
    /\ next_token_hash = 1
    /\ token_sessions = [s \in SessionIds |-> IdleTokenSession]
    /\ token_requests = 0
    /\ exchanged = <<>>

\* a caller that is in no is_allowed call
IdleLimiterSession ==
    [pc |-> "idle", now |-> 0, current_count |-> 0, allowed |-> NoneStr]

LimiterIdle ==
    /\ limiter_window = {}
    /\ clock = 0
    /\ limiter_sessions = [s \in SessionIds |-> IdleLimiterSession]
    /\ limiter_calls = 0
    /\ admitted = {}

\* the ingest jobs upload creates: metadata, proxy and thumbnail of asset 1
\* in one transaction, the metadata job of asset 2 in a later one
JobIds == 1..4

JobAssets == {1, 2}

\* an IngestJob row; started_at, completed_at and worker_id are NoneStr or
\* "set"
IngestJob(job_type, asset_id, priority, status) ==
    [job_type |-> job_type, asset_id |-> asset_id, priority |-> priority,
     created_at |-> asset_id, status |-> status,
     progress |-> IF status = "completed" THEN 100 ELSE 0,
     error_message |-> IF status = "failed" THEN "error" ELSE NoneStr,
     started_at |-> IF status = "pending" THEN NoneStr ELSE "set",
     completed_at |-> IF status \in {"completed", "failed"}
                        THEN "set" ELSE NoneStr,
     worker_id |-> IF status = "pending" THEN NoneStr ELSE "set"]

UploadedJob(j, status) ==
    CASE j = 1 -> IngestJob("metadata", 1, 10, status)
      [] j = 2 -> IngestJob("proxy", 1, 5, status)
      [] j = 3 -> IngestJob("thumbnail", 1, 5, status)
      [] OTHER -> IngestJob("metadata", 2, 10, status)

\* a session that serves no process-pending request; writes holds the rows
\* it has flushed and not committed
IdleJobSession ==
    [pc |-> "idle", queue |-> <<>>, writes |-> <<>>, asset_writes |-> {},
     dispatched |-> 0, errors |-> 0]

NoRetry == [job_id |-> 0, status_code |-> 0, found |-> FALSE]

JobIdle ==
    /\ jobs = <<>>
    /\ asset_status = <<>>
    /\ job_sessions = [s \in SessionIds |-> IdleJobSession]
    /\ job_requests = 0
    /\ retried = NoRetry

\* nothing but the search is in progress
NonSearchIdle ==
    /\ SuggestIdle
    /\ CollectionIdle
    /\ RegisterIdle
    /\ TokenIdle
    /\ LimiterIdle
    /\ JobIdle

Fresh ==
    /\ results_by_asset = <<>>
    /\ modes_used = <<>>
    /\ returned = NotReturned
    /\ invoked = {}
    /\ raised = NoneStr
    /\ failure = NoneStr
    /\ sorted_results = <<>>
    /\ response = NoResponse

\* no search in progress, over an empty store
SearchIdle ==
    /\ store = {}
    /\ request = NoRequest
    /\ pc = "idle"
    /\ calls = <<>>
    /\ Fresh

Init ==
    /\ store \in Stores
    /\ request = NoRequest
    /\ pc = "idle"
    /\ calls = <<>>
    /\ Fresh
    /\ NonSearchIdle

\* the endpoint hands a validated request to search()
Receive ==
    /\ pc = "idle"
    /\ \E r \in Requests : request' = r
    /\ pc' = "transcription"
    /\ UNCHANGED <<store, results_by_asset, modes_used, returned, invoked,
                   raised, failure, sorted_results, response, calls>>
    /\ UNCHANGED nonSearchVars

\* "if x_results: modes_used.append(x)", here without the test
AppendMode_Unconditional(used, results, source_type) ==
    Append(used, source_type)

\* "if x_results: modes_used.append(x)"
AppendMode(used, results, source_type) ==
    IF results # <<>> THEN Append(used, source_type) ELSE used

\* one "if request.modes.x:" block: the adapter call, _merge_results and the
\* append to modes_used; an exception of the adapter leaves search()
Stage(at, enabled, source_type, outcomes, next) ==
    /\ pc = at
    /\ invoked' = IF enabled THEN invoked \cup {source_type} ELSE invoked
    /\ IF enabled
       THEN \E out \in outcomes :
              IF out.raises
              THEN /\ pc' = "failed"
                   /\ failure' = source_type
                   /\ raised' = source_type
                   /\ UNCHANGED <<results_by_asset, modes_used, returned>>
              ELSE /\ pc' = next
                   /\ results_by_asset' =
                          MergeResults(results_by_asset, out.results, source_type)
                   /\ modes_used' = AppendMode(modes_used, out.results, source_type)
                   /\ returned' = [returned EXCEPT ![source_type] = out.results]
                   /\ raised' = IF out.error THEN source_type ELSE raised
                   /\ UNCHANGED failure
       ELSE /\ pc' = next
            /\ UNCHANGED <<results_by_asset, modes_used, returned, raised, failure>>
    /\ UNCHANGED <<store, request, sorted_results, response, calls>>
    /\ UNCHANGED nonSearchVars

StageTranscription ==
    Stage("transcription", request.modes.transcription, "transcription",
          { AdapterOutcome(error, results) :
                error \in BOOLEAN, results \in SearchTranscriptions(request) },
          "scene")

StageScene ==
    Stage("scene", request.modes.scene, "scene",
          { AdapterOutcome(error, results) :
                error \in BOOLEAN, results \in SearchScenes(request) },
          "keywords")

StageKeywords ==
    Stage("keywords", request.modes.keywords, "keyword",
          { AdapterOutcome(error, results) :
                error \in BOOLEAN, results \in SearchKeywords(request) },
          "metadata")

\* the metadata block followed at once by the ranking
StageMetadata_ThenRank ==
    Stage("metadata", request.modes.metadata, "metadata",
          { AdapterOutcome(error, results) :
                error \in BOOLEAN, results \in SearchMetadata(request) },
          "rank")

StageMetadata ==
    Stage("metadata", request.modes.metadata, "metadata",
          { AdapterOutcome(error, results) :
                error \in BOOLEAN, results \in SearchMetadata(request) },
          "face")

\* "if request.modes.face:", without the test of face_image
FaceRequested_FlagOnly(req) == req.modes.face

\* "if request.modes.face and request.face_image:"
FaceRequested(req) == req.modes.face /\ TruthyEnum(req.face_image)

\* the face block: the embedding extraction or the face query may raise
StageFace ==
    Stage("face", FaceRequested(request), "face",
          { FaceOutcome(error, results) :
                error \in { EmbeddingRaises(request.face_image), TRUE },
                results \in SearchFaces(request) },
          "rank")

\* lines 103-145: score, sort, paginate, format, respond
Rank ==
    /\ pc = "rank"
    /\ LET scored == [i \in 1..Len(results_by_asset) |->
                         [results_by_asset[i] EXCEPT
                             !.combined_score =
                                 CalculateRrfScore(results_by_asset[i].matches)]]
           sorted == SortResults(scored)
           paginated == Paginate(sorted, request.offset, request.limit)
       IN  /\ results_by_asset' = scored
           /\ sorted_results' = sorted
           /\ response' = [total |-> Len(sorted),
                           limit |-> request.limit,
                           offset |-> request.offset,
                           results |-> [i \in 1..Len(paginated) |->
                                           FormatResult(paginated[i])],
                           modes_used |-> modes_used]
    /\ pc' = "responded"
    /\ UNCHANGED <<store, request, modes_used, returned, invoked, raised,
                   failure, calls>>
    /\ UNCHANGED nonSearchVars

Next ==
    \/ Receive
    \/ StageTranscription
    \/ StageScene
    \/ StageKeywords
    \/ StageMetadata
    \/ StageFace
    \/ Rank

Spec == Init /\ [][Next]_vars

-----------------------------------------------------------------------------
(* A paging session: the same query, modes and filters asked again, page   *)
(* after page, over the same store.                                        *)

SessionStores == { s \in Stores : Cardinality(s) <= MaxSessionRows }

InitSession ==
    /\ store \in SessionStores
    /\ request = NoRequest
    /\ pc = "idle"
    /\ calls = <<>>
    /\ Fresh
    /\ NonSearchIdle

ReceivePage ==
    /\ pc = "idle"
    /\ \E p \in Pages : request' = [BaseRequest EXCEPT !.offset = p[1], !.limit = p[2]]
    /\ pc' = "transcription"
    /\ UNCHANGED <<store, results_by_asset, modes_used, returned, invoked,
                   raised, failure, sorted_results, response, calls>>
    /\ UNCHANGED nonSearchVars

\* the client keeps the response of a call in which nothing raised and asks
\* for another page
NextPage ==
    /\ pc = "responded"
    /\ raised = NoneStr
    /\ Len(calls) + 1 < MaxCalls
    /\ calls' = Append(calls, response)
    /\ \E p \in Pages : request' = [request EXCEPT !.offset = p[1], !.limit = p[2]]
    /\ pc' = "transcription"
    /\ results_by_asset' = <<>>
    /\ modes_used' = <<>>
    /\ returned' = NotReturned
    /\ invoked' = {}
    /\ raised' = NoneStr
    /\ failure' = NoneStr
    /\ sorted_results' = <<>>
    /\ response' = NoResponse
    /\ UNCHANGED store
    /\ UNCHANGED nonSearchVars

NextSession ==
    \/ ReceivePage
    \/ StageTranscription
    \/ StageScene
    \/ StageKeywords
    \/ StageMetadata
    \/ StageFace
    \/ Rank
    \/ NextPage

SpecSession == InitSession /\ [][NextSession]_vars

-----------------------------------------------------------------------------
(* SearchService.get_suggestions *)

\* asset_keywords rows: keywords "ab" and "abc" of tenant 1, one of tenant 2
KeywordRowUniverse ==
    { [id |-> 1, tenant_id |-> 1, keyword |-> "ab"],
      [id |-> 2, tenant_id |-> 1, keyword |-> "ab"],
      [id |-> 3, tenant_id |-> 1, keyword |-> "abc"],
      [id |-> 4, tenant_id |-> 2, keyword |-> "ab"] }

\* persons rows, appearance_count NOT NULL with default 0
PersonRowUniverse ==
    { [id |-> 1, tenant_id |-> 1, name |-> "Abe", appearance_count |-> 0],
      [id |-> 2, tenant_id |-> 1, name |-> "Abel", appearance_count |-> 3],
      [id |-> 3, tenant_id |-> 1, name |-> "Mabel", appearance_count |-> 1],
      [id |-> 4, tenant_id |-> 2, name |-> "Abe", appearance_count |-> 3] }

\* the limit query parameter of the endpoint, ge=1
SuggestLimits == 1..MaxSuggestLimit

SearchSuggestion(text, type, count) == [text |-> text, type |-> type, count |-> count]

\* SELECT keyword, COUNT(*) ... WHERE tenant_id = :tenant_id GROUP BY keyword
KeywordGroups(rows, tenant_id) ==
    LET mine == { r \in rows : r.tenant_id = tenant_id }
    IN  { SearchSuggestion(k, "keyword", Cardinality({ r \in mine : r.keyword = k })) :
              k \in { r.keyword : r \in mine } }

\* SELECT name, appearance_count FROM persons WHERE tenant_id = :tenant_id
PersonNames(rows, tenant_id) ==
    { SearchSuggestion(r.name, "person", r.appearance_count) :
          r \in { q \in rows : q.tenant_id = tenant_id } }

\* ORDER BY count DESC: rows of equal count in any order
OrderByCountDesc(S) ==
    { f \in AnyOrder(S) :
          \A i, j \in 1..Cardinality(S) : i < j => f[i].count >= f[j].count }

\* return suggestions[:limit]
Truncate(list, limit) == SubSeq(list, 1, Min(limit, Len(list)))

InitSuggest ==
    /\ keyword_rows \in SUBSET KeywordRowUniverse
    /\ person_rows \in SUBSET PersonRowUniverse
    /\ suggest_request = NoSuggestRequest
    /\ suggest_pc = "idle"
    /\ suggestions = <<>>
    /\ SearchIdle
    /\ CollectionIdle
    /\ RegisterIdle
    /\ TokenIdle
    /\ LimiterIdle
    /\ JobIdle

\* the endpoint calls get_suggestions with the tenant of the user
SuggestReceive ==
    /\ suggest_pc = "idle"
    /\ \E limit \in SuggestLimits :
           suggest_request' = [tenant_id |-> 1, limit |-> limit]
    /\ suggest_pc' = "keywords"
    /\ UNCHANGED <<keyword_rows, person_rows, suggestions>>
    /\ UNCHANGED nonSuggestVars

\* the keyword query, LIMIT limit // 2, and the appends of its rows
SuggestKeywords ==
    /\ suggest_pc = "keywords"
    /\ \E rows \in OrderByCountDesc(KeywordGroups(keyword_rows,
                                                  suggest_request.tenant_id)) :
           suggestions' = suggestions \o Limit(rows, suggest_request.limit \div 2)
    /\ suggest_pc' = "persons"
    /\ UNCHANGED <<keyword_rows, person_rows, suggest_request>>
    /\ UNCHANGED nonSuggestVars

\* the persons step, here counting a suggestion as an appearance of the person
SuggestPersons_CountsAppearance ==
    /\ suggest_pc = "persons"
    /\ \E rows \in OrderByCountDesc(PersonNames(person_rows,
                                                suggest_request.tenant_id)) :
           LET shown == Limit(rows, suggest_request.limit \div 2)
           IN  /\ suggestions' =
                      Truncate(suggestions \o shown, suggest_request.limit)
               /\ person_rows' =
                      { IF \E k \in 1..Len(shown) : shown[k].text = r.name
                        THEN [r EXCEPT !.appearance_count = r.appearance_count + 1]
                        ELSE r : r \in person_rows }
    /\ suggest_pc' = "done"
    /\ UNCHANGED <<keyword_rows, suggest_request>>
    /\ UNCHANGED nonSuggestVars

\* the persons query, LIMIT limit // 2, the appends of its rows and the return
SuggestPersons ==
    /\ suggest_pc = "persons"
    /\ \E rows \in OrderByCountDesc(PersonNames(person_rows,
                                                suggest_request.tenant_id)) :
           suggestions' =
               Truncate(suggestions \o Limit(rows, suggest_request.limit \div 2),
                        suggest_request.limit)
    /\ suggest_pc' = "done"
    /\ UNCHANGED <<keyword_rows, person_rows, suggest_request>>
    /\ UNCHANGED nonSuggestVars

NextSuggest ==
    \/ SuggestReceive
    \/ SuggestKeywords
    \/ SuggestPersons

SpecSuggest == InitSuggest /\ [][NextSuggest]_vars

-----------------------------------------------------------------------------
(* Collection items endpoints: add_item_to_collection, bulk_add_items,     *)
(* remove_item_from_collection.  Each request runs in a database session   *)
(* of its own; the endpoints flush, and what they wrote is committed when  *)
(* the request ends.  Statements of one session see what other sessions    *)
(* have committed (PostgreSQL's default isolation, nothing in the sources  *)
(* sets another).                                                          *)

\* assets 1 and 2 exist, asset 3 does not
ExistingAssets == {1, 2}

ItemRequest(op, collection_id, asset_ids, user) ==
    [op |-> op, collection_id |-> collection_id, asset_ids |-> asset_ids,
     user |-> user]

\* collection 1 exists, collection 2 does not; "stranger" is neither the
\* creator nor a superuser
ItemRequests ==
    { ItemRequest("add", 1, <<a>>, "owner") : a \in {1, 2, 3} }
    \cup { ItemRequest("bulk", 1, ids, "owner") : ids \in {<<1, 2>>, <<2, 3>>} }
    \cup { ItemRequest("remove", 1, <<a>>, "owner") : a \in {1, 2} }
    \cup { ItemRequest("add", 1, <<1>>, "stranger"),
           ItemRequest("add", 2, <<1>>, "owner") }

\* select(CollectionItem).where(collection_id, asset_id) on the committed rows
ItemsOf(asset_id) == { i \in collection_items : i.asset_id = asset_id }

\* the loop of bulk_add_items: the asset ids to insert, "continue" for those
\* that have a row
RECURSIVE BulkAdded(_)
BulkAdded(asset_ids) ==
    IF asset_ids = <<>> THEN <<>>
    ELSE IF ItemsOf(Head(asset_ids)) # {}
         THEN BulkAdded(Tail(asset_ids))
         ELSE <<Head(asset_ids)>> \o BulkAdded(Tail(asset_ids))

\* scalar_one_or_none() raises MultipleResultsFound on more than one row
SeveralRows(asset_ids) ==
    \E k \in 1..Len(asset_ids) : Cardinality(ItemsOf(asset_ids[k])) > 1

Finish(s, status) ==
    item_sessions' = [item_sessions EXCEPT ![s].pc = "done", ![s].status = status]

InitCollection ==
    /\ \E is_locked \in BOOLEAN : collection_row = NewCollection(is_locked)
    /\ collection_items = {}
    /\ next_item_id = 1
    /\ item_sessions = [s \in SessionIds |-> IdleItemSession]
    /\ item_requests = 0
    /\ SearchIdle
    /\ SuggestIdle
    /\ RegisterIdle
    /\ TokenIdle
    /\ LimiterIdle
    /\ JobIdle

\* a request arrives and gets a session
BeginItemRequest(s) ==
    /\ item_sessions[s].pc \in {"idle", "done"}
    /\ item_requests < MaxItemRequests
    /\ item_requests' = item_requests + 1
    /\ \E r \in ItemRequests :
           item_sessions' = [item_sessions EXCEPT
                                ![s] = [IdleItemSession EXCEPT !.pc = "collection",
                                                               !.request = r]]
    /\ UNCHANGED <<collection_row, collection_items, next_item_id>>
    /\ UNCHANGED nonCollectionVars

\* select(Collection), the permission check and the is_locked check
LoadCollection(s) ==
    LET r == item_sessions[s].request
    IN  /\ item_sessions[s].pc = "collection"
        /\ IF r.collection_id # 1 THEN Finish(s, 404)
           ELSE IF collection_row.created_by # r.user THEN Finish(s, 403)
           ELSE IF collection_row.is_locked THEN Finish(s, 400)
           ELSE item_sessions' =
                    [item_sessions EXCEPT
                        ![s].pc = "items",
                        ![s].loaded_count = collection_row.item_count,
                        ![s].item_count = collection_row.item_count]
        /\ UNCHANGED <<collection_row, collection_items, next_item_id, item_requests>>
        /\ UNCHANGED nonCollectionVars

\* add_item_to_collection: asset check, duplicate check, db.add(item),
\* collection.item_count += 1
CheckAdd(s) ==
    LET r == item_sessions[s].request
        a == r.asset_ids[1]
    IN  /\ item_sessions[s].pc = "items"
        /\ r.op = "add"
        /\ IF a \notin ExistingAssets THEN Finish(s, 404)
           ELSE IF SeveralRows(r.asset_ids) THEN Finish(s, 500)
           ELSE IF ItemsOf(a) # {} THEN Finish(s, 400)
           ELSE item_sessions' =
                    [item_sessions EXCEPT
                        ![s].pc = "flush",
                        ![s].added = <<a>>,
                        ![s].item_count = item_sessions[s].item_count + 1]
        /\ UNCHANGED <<collection_row, collection_items, next_item_id, item_requests>>
        /\ UNCHANGED nonCollectionVars

\* bulk_add_items: the loop and collection.item_count += added_count
CheckBulk(s) ==
    LET r == item_sessions[s].request
        added == BulkAdded(r.asset_ids)
    IN  /\ item_sessions[s].pc = "items"
        /\ r.op = "bulk"
        /\ IF SeveralRows(r.asset_ids) THEN Finish(s, 500)
           ELSE item_sessions' =
                    [item_sessions EXCEPT
                        ![s].pc = "flush",
                        ![s].added = added,
                        ![s].item_count = item_sessions[s].item_count + Len(added)]
        /\ UNCHANGED <<collection_row, collection_items, next_item_id, item_requests>>
        /\ UNCHANGED nonCollectionVars

\* collection.item_count = max(0, collection.item_count - 1)
Decrement(n) == IF n - 1 > 0 THEN n - 1 ELSE 0

\* remove_item_from_collection: the item lookup, db.delete(item) and the
\* decrement
CheckRemove(s) ==
    LET r == item_sessions[s].request
        a == r.asset_ids[1]
    IN  /\ item_sessions[s].pc = "items"
        /\ r.op = "remove"
        /\ IF SeveralRows(r.asset_ids) THEN Finish(s, 500)
           ELSE IF ItemsOf(a) = {} THEN Finish(s, 404)
           ELSE item_sessions' =
                    [item_sessions EXCEPT
                        ![s].pc = "flush",
                        ![s].deleted = ItemsOf(a),
                        ![s].item_count = Decrement(item_sessions[s].item_count)]
        /\ UNCHANGED <<collection_row, collection_items, next_item_id, item_requests>>
        /\ UNCHANGED nonCollectionVars

\* the rows db.add() queued, with generated ids
NewItems(added, first_id) ==
    { [id |-> first_id + k - 1, asset_id |-> added[k]] : k \in 1..Len(added) }

\* db.flush() and the commit at the end of the request: the INSERTs, the
\* DELETE, and UPDATE collections SET item_count = <the value computed from
\* the count loaded> when the attribute changed.  A DELETE that matches no
\* row (the item is gone) raises StaleDataError and the session rolls back.
FlushAndCommit(s) ==
    LET ses == item_sessions[s]
    IN  /\ ses.pc = "flush"
        /\ IF ~(ses.deleted \subseteq collection_items)
           THEN /\ Finish(s, 500)
                /\ UNCHANGED <<collection_row, collection_items, next_item_id>>
           ELSE /\ collection_items' =
                       (collection_items \ ses.deleted)
                           \cup NewItems(ses.added, next_item_id)
                /\ next_item_id' = next_item_id + Len(ses.added)
                /\ collection_row' =
                       IF ses.item_count # ses.loaded_count
                       THEN [collection_row EXCEPT !.item_count = ses.item_count]
                       ELSE collection_row
                /\ Finish(s, IF ses.request.op = "add" THEN 201 ELSE 200)
        /\ UNCHANGED item_requests
        /\ UNCHANGED nonCollectionVars

NextCollection ==
    \E s \in SessionIds :
        \/ BeginItemRequest(s)
        \/ LoadCollection(s)
        \/ CheckAdd(s)
        \/ CheckBulk(s)
        \/ CheckRemove(s)
        \/ FlushAndCommit(s)

SpecCollection == InitCollection /\ [][NextCollection]_vars

-----------------------------------------------------------------------------
(* register_user.  Sessions and commits as for the collection items        *)
(* endpoints; the users table has no unique constraint on                  *)
(* (tenant_id, email).                                                     *)

\* UserCreate: email and an optional tenant_code
RegisterRequests ==
    [email : {"a@akashi.io", "b@akashi.io"}, tenant_code : {NoneStr, "dev", "acme", "gone"}]

\* get_tenant_by_code: tenant_code or "dev"; 0 when no active tenant has the code
TenantByCode(tenant_code) ==
    LET code == IF tenant_code = NoneStr THEN "dev" ELSE tenant_code
    IN  CASE code = "dev" -> 1
          [] code = "acme" -> 2
          [] OTHER -> 0

\* select(User).where(tenant_id, email) on the committed rows
UsersWith(tenant_id, email) ==
    { u \in users : u.tenant_id = tenant_id /\ u.email = email }

FinishRegister(s, status) ==
    register_sessions' =
        [register_sessions EXCEPT ![s].pc = "done", ![s].status = status]

InitRegister ==
    /\ RegisterIdle
    /\ TokenIdle
    /\ LimiterIdle
    /\ JobIdle
    /\ SearchIdle
    /\ SuggestIdle
    /\ CollectionIdle

\* a request arrives and gets a session
BeginRegister(s) ==
    /\ register_sessions[s].pc \in {"idle", "done"}
    /\ register_requests < MaxRegisterRequests
    /\ register_requests' = register_requests + 1
    /\ \E r \in RegisterRequests :
           register_sessions' =
               [register_sessions EXCEPT
                   ![s] = [IdleRegisterSession EXCEPT !.pc = "tenant", !.request = r]]
    /\ UNCHANGED <<users, next_user_id>>
    /\ UNCHANGED nonRegisterVars

\* tenant = await get_tenant_by_code(db, data.tenant_code)
GetTenant(s) ==
    LET t == TenantByCode(register_sessions[s].request.tenant_code)
    IN  /\ register_sessions[s].pc = "tenant"
        /\ IF t = 0 THEN FinishRegister(s, 404)
           ELSE register_sessions' =
                    [register_sessions EXCEPT ![s].pc = "existing", ![s].tenant_id = t]
        /\ UNCHANGED <<users, next_user_id, register_requests>>
        /\ UNCHANGED nonRegisterVars

\* if existing.scalar_one_or_none():
EmailTaken(found) == found # {}

\* the check for a user of the tenant with the email
CheckExisting(s) ==
    LET ses == register_sessions[s]
        found == UsersWith(ses.tenant_id, ses.request.email)
    IN  /\ ses.pc = "existing"
        /\ IF Cardinality(found) > 1 THEN FinishRegister(s, 500)
           ELSE IF EmailTaken(found) THEN FinishRegister(s, 400)
           ELSE register_sessions' = [register_sessions EXCEPT ![s].pc = "insert"]
        /\ UNCHANGED <<users, next_user_id, register_requests>>
        /\ UNCHANGED nonRegisterVars

\* db.add(user), db.flush() and the commit at the end of the request
InsertUser(s) ==
    LET ses == register_sessions[s]
    IN  /\ ses.pc = "insert"
        /\ users' = users \cup { [id |-> next_user_id, tenant_id |-> ses.tenant_id,
                                  email |-> ses.request.email] }
        /\ next_user_id' = next_user_id + 1
        /\ FinishRegister(s, 201)
        /\ UNCHANGED register_requests
        /\ UNCHANGED nonRegisterVars

NextRegister ==
    \E s \in SessionIds :
        \/ BeginRegister(s)
        \/ GetTenant(s)
        \/ CheckExisting(s)
        \/ InsertUser(s)

SpecRegister == InitRegister /\ [][NextRegister]_vars

-----------------------------------------------------------------------------
(* A search request and a suggestions request served side by side over     *)
(* the same database.                                                      *)

\* the rows of asset 1, one or two per table
ReadOnlyStores ==
    { s \in Stores : /\ Cardinality(s) <= MaxReadOnlyRows
                     /\ \A row \in s : row.asset_id = 1 }

InitReadOnly ==
    /\ store \in ReadOnlyStores
    /\ request = NoRequest
    /\ pc = "idle"
    /\ calls = <<>>
    /\ Fresh
    /\ \E full \in BOOLEAN :
           /\ keyword_rows = IF full THEN KeywordRowUniverse ELSE {}
           /\ person_rows = IF full THEN PersonRowUniverse ELSE {}
    /\ suggest_request = NoSuggestRequest
    /\ suggest_pc = "idle"
    /\ suggestions = <<>>
    /\ CollectionIdle
    /\ RegisterIdle
    /\ TokenIdle
    /\ LimiterIdle
    /\ JobIdle

NextReadOnly ==
    \/ Receive
    \/ StageTranscription
    \/ StageScene
    \/ StageKeywords
    \/ StageMetadata
    \/ StageFace
    \/ Rank
    \/ SuggestReceive
    \/ SuggestKeywords
    \/ SuggestPersons

SpecReadOnly == InitReadOnly /\ [][NextReadOnly]_vars

-----------------------------------------------------------------------------
(* Refresh tokens: POST /auth/refresh, /auth/logout and /auth/logout-all,  *)
(* each request in a database session of its own. Every user is active.    *)

TokenUsers == {1, 2}

\* the token hashes a client can present: 0 is a token that was never
\* issued, the others are the tokens issued so far
KnownHashes == 0..(next_token_hash - 1)

TokenRequest(op, token_hash, user_id) ==
    [op |-> op, token_hash |-> token_hash, user_id |-> user_id]

\* the non-revoked row with this hash (refresh_tokens select)
RefreshSelect(token_hash) ==
    { t \in refresh_tokens : t.token_hash = token_hash /\ ~t.is_revoked }

\* the row with this hash that belongs to the user (logout select)
LogoutSelect(token_hash, user_id) ==
    { t \in refresh_tokens : t.token_hash = token_hash /\ t.user_id = user_id }

\* every non-revoked row of the user (logout_all_devices select)
LogoutAllSelect(user_id) ==
    { t \in refresh_tokens : t.user_id = user_id /\ ~t.is_revoked }

\* UPDATE refresh_tokens SET is_revoked, revoked_reason WHERE id IN found:
\* the rows are addressed by primary key, whatever they hold by now
Revoke(found, reason) ==
    { IF t.token_hash \in found
        THEN [t EXCEPT !.is_revoked = TRUE, !.revoked_reason = reason]
        ELSE t : t \in refresh_tokens }

FinishToken(s, status) ==
    token_sessions' = [token_sessions EXCEPT
        ![s] = [IdleTokenSession EXCEPT !.status = status]]

\* the tables as two logins and the passing of time left them: token 1 of
\* user 1 is valid, token 2 of user 1 has passed its expires_at
InitToken ==
    /\ refresh_tokens = {RefreshToken(1, 1, FALSE), RefreshToken(2, 1, TRUE)}
    /\ next_token_hash = 3
    /\ token_sessions = [s \in SessionIds |-> IdleTokenSession]
    /\ token_requests = 0
    /\ exchanged = [h \in 1..(2 + MaxTokenRequests) |-> 0]
    /\ store = {}
    /\ request = NoRequest
    /\ pc = "idle"
    /\ calls = <<>>
    /\ Fresh
    /\ SuggestIdle
    /\ CollectionIdle
    /\ RegisterIdle
    /\ LimiterIdle
    /\ JobIdle

BeginTokenRequest(s) ==
    /\ token_sessions[s].pc = "idle"
    /\ token_requests < MaxTokenRequests
    /\ \E op \in {"refresh", "logout", "logout_all"}, h \in KnownHashes,
          u \in TokenUsers :
        /\ op = "refresh" => u = 1
        /\ op = "logout_all" => h = 0
        /\ token_sessions' = [token_sessions EXCEPT
               ![s] = [pc |-> op, request |-> TokenRequest(op, h, u),
                       found |-> {}, status |-> 0]]
    /\ token_requests' = token_requests + 1
    /\ UNCHANGED <<refresh_tokens, next_token_hash, exchanged>>
    /\ UNCHANGED nonTokenVars

\* refresh_tokens up to its commit: the select, the 401 of a token that is
\* not found, the expiry check
RefreshFind(s) ==
    LET req == token_sessions[s].request
        found == RefreshSelect(req.token_hash)
    IN  /\ token_sessions[s].pc = "refresh"
        /\ IF found = {}
             THEN FinishToken(s, 401)
             ELSE token_sessions' = [token_sessions EXCEPT
                      ![s].pc = IF \E t \in found : t.expired
                                  THEN "commit_expired" ELSE "commit_rotate",
                      ![s].found = { t.token_hash : t \in found }]
        /\ UNCHANGED <<refresh_tokens, next_token_hash, token_requests,
                       exchanged>>
        /\ UNCHANGED nonTokenVars

\* an expired token is revoked and the request answered 401
CommitExpired(s) ==
    /\ token_sessions[s].pc = "commit_expired"
    /\ refresh_tokens' = Revoke(token_sessions[s].found, "expired")
    /\ FinishToken(s, 401)
    /\ UNCHANGED <<next_token_hash, token_requests, exchanged>>
    /\ UNCHANGED nonTokenVars

\* rotation: the old token is revoked, a new one stored, the pair returned
CommitRotate(s) ==
    LET req == token_sessions[s].request
        user_id == CHOOSE u \in TokenUsers : \E t \in refresh_tokens :
                       t.token_hash = req.token_hash /\ t.user_id = u
    IN  /\ token_sessions[s].pc = "commit_rotate"
        /\ refresh_tokens' = Revoke(token_sessions[s].found, "rotated")
               \cup {RefreshToken(next_token_hash, user_id, FALSE)}
        /\ next_token_hash' = next_token_hash + 1
        /\ exchanged' = [exchanged EXCEPT ![req.token_hash] = @ + 1]
        /\ FinishToken(s, 200)
        /\ UNCHANGED token_requests
        /\ UNCHANGED nonTokenVars

\* logout up to its commit: nothing to do for a token that is not the
\* user's or is revoked already
LogoutFind(s) ==
    LET req == token_sessions[s].request
        found == LogoutSelect(req.token_hash, req.user_id)
    IN  /\ token_sessions[s].pc = "logout"
        /\ IF \E t \in found : ~t.is_revoked
             THEN token_sessions' = [token_sessions EXCEPT
                      ![s].pc = "commit_logout",
                      ![s].found = { t.token_hash : t \in found }]
             ELSE FinishToken(s, 200)
        /\ UNCHANGED <<refresh_tokens, next_token_hash, token_requests,
                       exchanged>>
        /\ UNCHANGED nonTokenVars

CommitLogout(s) ==
    /\ token_sessions[s].pc = "commit_logout"
    /\ refresh_tokens' = Revoke(token_sessions[s].found, "logout")
    /\ FinishToken(s, 200)
    /\ UNCHANGED <<next_token_hash, token_requests, exchanged>>
    /\ UNCHANGED nonTokenVars

LogoutAllFind(s) ==
    LET req == token_sessions[s].request
    IN  /\ token_sessions[s].pc = "logout_all"
        /\ token_sessions' = [token_sessions EXCEPT
               ![s].pc = "commit_logout_all",
               ![s].found = { t.token_hash : t \in LogoutAllSelect(req.user_id) }]
        /\ UNCHANGED <<refresh_tokens, next_token_hash, token_requests,
                       exchanged>>
        /\ UNCHANGED nonTokenVars

CommitLogoutAll(s) ==
    /\ token_sessions[s].pc = "commit_logout_all"
    /\ refresh_tokens' = Revoke(token_sessions[s].found, "logout_all")
    /\ FinishToken(s, 200)
    /\ UNCHANGED <<next_token_hash, token_requests, exchanged>>
    /\ UNCHANGED nonTokenVars

NextToken ==
    \E s \in SessionIds :
        \/ BeginTokenRequest(s)
        \/ RefreshFind(s)
        \/ CommitExpired(s)
        \/ CommitRotate(s)
        \/ LogoutFind(s)
        \/ CommitLogout(s)
        \/ LogoutAllFind(s)
        \/ CommitLogoutAll(s)

SpecToken == InitToken /\ [][NextToken]_vars

-----------------------------------------------------------------------------
(* Rate limiting: RateLimiter.is_allowed for one identifier, with          *)
(* settings.rate_limit_enabled and Redis reachable. Every read of the      *)
(* clock returns a later timestamp than the one before, so the members     *)
(* str(now) of the sorted set are distinct; the key's expiry of            *)
(* window_seconds + 10 lies beyond MaxClock.                               *)

\* RateLimiter(requests, window_seconds) as the model instantiates it
requests == 2
window_seconds == 3

\* pipe.zremrangebyscore(key, 0, now - window_seconds): the members whose
\* score is outside [0, now - window_seconds] stay
ZRemRangeByScore(zset, max) == { e \in zset : ~(0 <= e /\ e <= max) }

ZCard(zset) == Cardinality(zset)

\* redis.zadd(key, {str(now): now}): member and score are the timestamp
ZAdd(zset, now) == zset \cup {now}

InitLimiter ==
    /\ limiter_window = {}
    /\ clock = 0
    /\ limiter_sessions = [s \in SessionIds |-> IdleLimiterSession]
    /\ limiter_calls = 0
    /\ admitted = {}
    /\ store = {}
    /\ request = NoRequest
    /\ pc = "idle"
    /\ calls = <<>>
    /\ Fresh
    /\ SuggestIdle
    /\ CollectionIdle
    /\ RegisterIdle
    /\ TokenIdle
    /\ JobIdle

\* time passes between calls
Tick ==
    /\ clock < MaxClock
    /\ clock' = clock + 1
    /\ UNCHANGED <<limiter_window, limiter_sessions, limiter_calls, admitted>>
    /\ UNCHANGED nonLimiterVars

\* is_allowed is entered: now = datetime.now().timestamp()
ReadClock(s) ==
    /\ limiter_sessions[s].pc = "idle"
    /\ limiter_calls < MaxLimiterCalls
    /\ clock < MaxClock
    /\ clock' = clock + 1
    /\ limiter_sessions' = [limiter_sessions EXCEPT
           ![s] = [pc |-> "pipeline", now |-> clock + 1, current_count |-> 0,
                   allowed |-> NoneStr]]
    /\ limiter_calls' = limiter_calls + 1
    /\ UNCHANGED <<limiter_window, admitted>>
    /\ UNCHANGED nonLimiterVars

\* pipe.execute(): the old entries are removed and the rest counted, as
\* one transaction
Pipeline(s) ==
    LET now == limiter_sessions[s].now
        kept == ZRemRangeByScore(limiter_window, now - window_seconds)
    IN  /\ limiter_sessions[s].pc = "pipeline"
        /\ limiter_window' = kept
        /\ limiter_sessions' = [limiter_sessions EXCEPT
               ![s].pc = "decide", ![s].current_count = ZCard(kept)]
        /\ UNCHANGED <<clock, limiter_calls, admitted>>
        /\ UNCHANGED nonLimiterVars

\* current_count >= self.requests: the call is refused; zrange only reads
Refuse(s) ==
    /\ limiter_sessions[s].pc = "decide"
    /\ limiter_sessions[s].current_count >= requests
    /\ limiter_sessions' = [limiter_sessions EXCEPT
           ![s] = [IdleLimiterSession EXCEPT !.allowed = "refused"]]
    /\ UNCHANGED <<limiter_window, clock, limiter_calls, admitted>>
    /\ UNCHANGED nonLimiterVars

\* otherwise the call adds its entry, in a command of its own, and is
\* admitted
Admit(s) ==
    /\ limiter_sessions[s].pc = "decide"
    /\ limiter_sessions[s].current_count < requests
    /\ limiter_window' = ZAdd(limiter_window, limiter_sessions[s].now)
    /\ admitted' = admitted \cup {limiter_sessions[s].now}
    /\ limiter_sessions' = [limiter_sessions EXCEPT
           ![s] = [IdleLimiterSession EXCEPT !.allowed = "admitted"]]
    /\ UNCHANGED <<clock, limiter_calls>>
    /\ UNCHANGED nonLimiterVars

NextLimiter ==
    \/ Tick
    \/ \E s \in SessionIds :
           \/ ReadClock(s)
           \/ Pipeline(s)
           \/ Refuse(s)
           \/ Admit(s)

SpecLimiter == InitLimiter /\ [][NextLimiter]_vars

-----------------------------------------------------------------------------
(* Jobs: POST /jobs/process-pending with sync=true, each request in a      *)
(* database session of its own that commits when the request ends; and     *)
(* POST /jobs/{id}/retry. A session reads what is committed and what it    *)
(* has flushed itself; a flushed row stays locked until the commit.        *)

JobStatuses == {"pending", "processing", "completed", "failed", "cancelled"}

\* the ingest_jobs rows as session s sees them
JobView(s) ==
    [j \in JobIds |-> IF j \in DOMAIN job_sessions[s].writes
                        THEN job_sessions[s].writes[j] ELSE jobs[j]]

\* the assets session s has set to "available" and not yet committed
AssetView(s) ==
    [a \in JobAssets |-> IF a \in job_sessions[s].asset_writes
                           THEN "available" ELSE asset_status[a]]

\* job.<attr> = ...; db.flush(): the row replaces what the session had
Flush(s, j, row) ==
    [k \in (DOMAIN job_sessions[s].writes) \cup {j} |->
        IF k = j THEN row ELSE job_sessions[s].writes[k]]

\* the row is not locked by the flush of another session
Unlocked(s, j) ==
    \A t \in SessionIds \ {s} : j \notin DOMAIN job_sessions[t].writes

AssetUnlocked(s, a) ==
    \A t \in SessionIds \ {s} : a \notin job_sessions[t].asset_writes

\* ORDER BY priority DESC, created_at: a sorts strictly before b
SortsBefore(view, a, b) ==
    \/ view[a].priority > view[b].priority
    \/ /\ view[a].priority = view[b].priority
       /\ view[a].created_at < view[b].created_at

\* the results of select(IngestJob).where(status == "pending")
\* .order_by(priority.desc(), created_at).limit(limit): rows that tie are
\* returned in any order
PendingJobs(view, limit) ==
    LET pending == { j \in JobIds : view[j].status = "pending" }
        n == Cardinality(pending)
        orders == { q \in [1..n -> pending] :
                      /\ \A i, k \in 1..n : i # k => q[i] # q[k]
                      /\ \A i, k \in 1..n :
                             i < k => ~SortsBefore(view, q[k], q[i]) }
    IN  { SubSeq(q, 1, IF limit < n THEN limit ELSE n) : q \in orders }

\* the other jobs of the asset that are pending or processing
\* (_process_job_sync, "Check if all jobs for this asset are complete")
OtherPending(view, j) ==
    { k \in JobIds : /\ view[k].asset_id = view[j].asset_id
                     /\ view[k].status \in {"pending", "processing"}
                     /\ k # j }

\* the tables as two uploads left them: every job pending, the assets
\* "processing"
InitJobs ==
    /\ jobs = [j \in JobIds |-> UploadedJob(j, "pending")]
    /\ asset_status = [a \in JobAssets |-> "processing"]
    /\ job_sessions = [s \in SessionIds |-> IdleJobSession]
    /\ job_requests = 0
    /\ retried = NoRetry
    /\ store = {}
    /\ request = NoRequest
    /\ pc = "idle"
    /\ calls = <<>>
    /\ Fresh
    /\ SuggestIdle
    /\ CollectionIdle
    /\ RegisterIdle
    /\ TokenIdle
    /\ LimiterIdle

\* process_pending_jobs: the select of the pending jobs
SelectPending(s) ==
    /\ job_sessions[s].pc = "idle"
    /\ job_requests < MaxJobRequests
    /\ job_requests' = job_requests + 1
    /\ \E limit \in 1..MaxJobLimit : \E q \in PendingJobs(JobView(s), limit) :
           job_sessions' = [job_sessions EXCEPT
               ![s] = [IdleJobSession EXCEPT
                          !.pc = IF q = <<>> THEN "idle" ELSE "start",
                          !.queue = q]]
    /\ UNCHANGED <<jobs, asset_status, retried>>
    /\ UNCHANGED nonJobVars

\* _process_job_sync: job.status = "processing", flush
StartJob(s) ==
    LET j == Head(job_sessions[s].queue)
        row == [JobView(s)[j] EXCEPT !.status = "processing",
                                     !.started_at = "set"]
    IN  /\ job_sessions[s].pc = "start"
        /\ Unlocked(s, j)
        /\ job_sessions' = [job_sessions EXCEPT
               ![s].pc = "work", ![s].writes = Flush(s, j, row)]
        /\ UNCHANGED <<jobs, asset_status, job_requests, retried>>
        /\ UNCHANGED nonJobVars

\* the next job of the request, or the commit that ends it
Continue(s) ==
    IF Tail(job_sessions[s].queue) = <<>> THEN "commit" ELSE "start"

\* the work succeeded: the job is marked complete and, when no other job of
\* the asset is pending or processing, the asset "available"
CompleteJob(s) ==
    LET j == Head(job_sessions[s].queue)
        row == [JobView(s)[j] EXCEPT !.status = "completed",
                                     !.progress = 100,
                                     !.completed_at = "set"]
        a == row.asset_id
        available == OtherPending(JobView(s), j) = {}
    IN  /\ job_sessions[s].pc = "work"
        /\ available => AssetUnlocked(s, a)
        /\ job_sessions' = [job_sessions EXCEPT
               ![s].pc = Continue(s),
               ![s].queue = Tail(@),
               ![s].writes = Flush(s, j, row),
               ![s].asset_writes = IF available THEN @ \cup {a} ELSE @,
               ![s].dispatched = @ + 1]
        /\ UNCHANGED <<jobs, asset_status, job_requests, retried>>
        /\ UNCHANGED nonJobVars

\* the work raised: the job is marked failed, the exception is caught by
\* the loop of process_pending_jobs
FailJob(s) ==
    LET j == Head(job_sessions[s].queue)
        row == [JobView(s)[j] EXCEPT !.status = "failed",
                                     !.error_message = "error",
                                     !.completed_at = "set"]
    IN  /\ job_sessions[s].pc = "work"
        /\ job_sessions' = [job_sessions EXCEPT
               ![s].pc = Continue(s),
               ![s].queue = Tail(@),
               ![s].writes = Flush(s, j, row),
               ![s].errors = @ + 1]
        /\ UNCHANGED <<jobs, asset_status, job_requests, retried>>
        /\ UNCHANGED nonJobVars

\* the request ends: what the session flushed is committed
CommitJobs(s) ==
    /\ job_sessions[s].pc = "commit"
    /\ jobs' = JobView(s)
    /\ asset_status' = AssetView(s)
    /\ job_sessions' = [job_sessions EXCEPT
           ![s] = [IdleJobSession EXCEPT
                      !.dispatched = job_sessions[s].dispatched,
                      !.errors = job_sessions[s].errors]]
    /\ UNCHANGED <<job_requests, retried>>
    /\ UNCHANGED nonJobVars

NextJobs ==
    \E s \in SessionIds :
        \/ SelectPending(s)
        \/ StartJob(s)
        \/ CompleteJob(s)
        \/ FailJob(s)
        \/ CommitJobs(s)

SpecJobs == InitJobs /\ [][NextJobs]_vars

-----------------------------------------------------------------------------
(* POST /jobs/{job_id}/retry, one request at a time, on jobs in any status *)
(* the workers can leave them in.                                          *)

\* job_id 0 is the id of no job
RetryIds == {0} \cup JobIds

\* job.status not in ("failed", "cancelled") answers 400
Retryable_AnyUnfinished(status) == status # "completed"

Retryable(status) == status \in {"failed", "cancelled"}

\* the "Reset job" assignments
ResetJob(job) ==
    [job EXCEPT !.status = "pending", !.progress = 0,
                !.error_message = NoneStr, !.started_at = NoneStr,
                !.completed_at = NoneStr, !.worker_id = NoneStr]

InitRetry ==
    /\ \E st \in [JobIds -> JobStatuses] :
           jobs = [j \in JobIds |-> UploadedJob(j, st[j])]
    /\ asset_status = [a \in JobAssets |-> "processing"]
    /\ job_sessions = [s \in SessionIds |-> IdleJobSession]
    /\ job_requests = 0
    /\ retried = NoRetry
    /\ store = {}
    /\ request = NoRequest
    /\ pc = "idle"
    /\ calls = <<>>
    /\ Fresh
    /\ SuggestIdle
    /\ CollectionIdle
    /\ RegisterIdle
    /\ TokenIdle
    /\ LimiterIdle

\* retry_job: 404 for an unknown id, 400 for a job that is neither failed
\* nor cancelled, otherwise the reset; a failing dispatch to Celery is
\* logged and changes nothing
RetryJob ==
    /\ job_requests < MaxRetryRequests
    /\ job_requests' = job_requests + 1
    /\ \E job_id \in RetryIds :
           IF job_id \notin JobIds
             THEN /\ retried' = [job_id |-> job_id, status_code |-> 404,
                                 found |-> FALSE]
                  /\ UNCHANGED jobs
             ELSE IF ~Retryable(jobs[job_id].status)
               THEN /\ retried' = [job_id |-> job_id, status_code |-> 400,
                                   found |-> TRUE]
                    /\ UNCHANGED jobs
               ELSE /\ retried' = [job_id |-> job_id, status_code |-> 200,
                                   found |-> TRUE]
                    /\ jobs' = [jobs EXCEPT ![job_id] = ResetJob(@)]
    /\ UNCHANGED <<asset_status, job_sessions>>
    /\ UNCHANGED nonJobVars

NextRetry == RetryJob

SpecRetry == InitRetry /\ [][NextRetry]_vars

-----------------------------------------------------------------------------
(* Properties *)

Range(seq) == { seq[i] : i \in 1..Len(seq) }

Responded == pc = "responded"

\* the candidates the adapters returned, as <<source, index>>
Candidates == { c \in SourceSet \X (1..MaxRows) : c[2] <= Len(returned[c[1]]) }

Candidate(c) == returned[c[1]][c[2]]

\* asset ids and scores of a result list, in order
Ranking(results) ==
    [i \in 1..Len(results) |-> <<results[i].asset_id, results[i].combined_score>>]

\* C1: every asset id appears at most once in the ranked list and in the
\* page of it that search returns, whatever the adapters returned.
C1_EntityAppearsOnce ==
    Responded =>
        /\ \A i, j \in 1..Len(sorted_results) :
               i # j => sorted_results[i].asset_id # sorted_results[j].asset_id
        /\ \A i, j \in 1..Len(response.results) :
               i # j => response.results[i].asset_id # response.results[j].asset_id

\* a returned entity that one source matched twice and another source too
C1_Witness ==
    /\ Responded
    /\ \E k \in 1..Len(response.results) :
           LET m == response.results[k].matches
           IN  \E i, j, l \in 1..Len(m) :
                   i # j /\ m[i].type = m[j].type /\ m[l].type # m[i].type

\* sum for rank = 1..N of 1 / (rrf_k + rank), in units of 1 / ScoreLcm
RECURSIVE ReciprocalSum(_)
ReciprocalSum(N) ==
    IF N = 0 THEN 0 ELSE ReciprocalSum(N - 1) + ScoreLcm \div (rrf_k + N)

\* C2: the combined_score of a result with N >= 1 matches is
\* (sum for rank = 1..N of 1/(60 + rank)) * (1 + (N - 1) * 0.2); both sides
\* in units of 1 / (5 * ScoreLcm).
C2_CombinedScoreFormula ==
    Responded =>
        \A r \in Range(sorted_results) \cup Range(response.results) :
            LET N == Len(r.matches)
            IN  /\ N >= 1
                /\ \A rank \in 1..N : ScoreLcm % (rrf_k + rank) = 0
                /\ r.combined_score = ReciprocalSum(N) * (5 + (N - 1))

\* results with one match and with several matches are returned together
C2_Witness ==
    /\ Responded
    /\ \E r1, r2 \in Range(response.results) :
           Len(r1.matches) = 1 /\ Len(r2.matches) >= 2

\* C3: the returned results are in non-increasing order of combined_score.
C3_SortedByScore ==
    Responded =>
        \A i \in 1..(Len(response.results) - 1) :
            response.results[i].combined_score >= response.results[i + 1].combined_score

\* a response whose scores strictly fall, from an entity merged later than
\* the one it precedes
C3_Witness ==
    /\ Responded
    /\ \E i \in 1..(Len(response.results) - 1) :
           /\ response.results[i].combined_score > response.results[i + 1].combined_score
           /\ IndexOf(results_by_asset, response.results[i].asset_id)
                  > IndexOf(results_by_asset, response.results[i + 1].asset_id)

\* C4: two calls of one session with the same offset and limit, over the
\* same store and with no failure in either, return the same asset ids in
\* the same order with the same scores.
C4_SameCallSameRanking ==
    (Responded /\ raised = NoneStr) =>
        \A c \in Range(calls) :
            (c.offset = response.offset /\ c.limit = response.limit)
                => Ranking(c.results) = Ranking(response.results)

\* C5: when the query of an enabled source raises, search still responds,
\* the source is not in modes_used and contributed no candidate.
C5_FailureDegrades ==
    raised # NoneStr =>
        /\ pc # "failed"
        /\ failure = NoneStr
        /\ returned[raised] = <<>>
        /\ raised \notin Range(modes_used)

\* C6: when the embedding extraction or the face query raises, search goes
\* on to a response without "face" in modes_used, whose ranked list holds
\* exactly the entities, and every hit, of the other four sources.
C6_FaceFailureDegrades ==
    raised = "face" =>
        /\ pc \in {"rank", "responded"}
        /\ failure = NoneStr
        /\ returned["face"] = <<>>
        /\ "face" \notin Range(modes_used)
        /\ Responded =>
              /\ "face" \notin Range(response.modes_used)
              /\ response.total = Cardinality({ Candidate(c).asset_id : c \in Candidates })
              /\ \A c \in Candidates :
                     \E e \in Range(sorted_results) :
                         /\ e.asset_id = Candidate(c).asset_id
                         /\ Candidate(c).match \in Range(e.matches)
              /\ \A k \in 1..Len(response.results) :
                     response.results[k] = FormatResult(sorted_results[request.offset + k])

\* the face adapter failed and hits of other sources are returned
C6_Witness ==
    /\ Responded
    /\ raised = "face"
    /\ \E r \in Range(response.results) : Len(r.matches) >= 2
    /\ Len(response.modes_used) >= 2

\* an asset satisfies every filter that is set (not None) in the request
SatisfiesFilters(a, f) ==
    /\ f.asset_type # NoneStr => a.asset_type = f.asset_type
    /\ f.status # NoneStr => a.status = f.status
    /\ f.date_from # NoneInt => a.created_at >= f.date_from
    /\ f.date_to # NoneInt => a.created_at <= f.date_to
    /\ f.min_duration_ms # NoneInt =>
           a.duration_ms # NoneInt /\ a.duration_ms >= f.min_duration_ms
    /\ f.max_duration_ms # NoneInt =>
           a.duration_ms # NoneInt /\ a.duration_ms <= f.max_duration_ms

\* C7: the asset of every returned result satisfies every filter among
\* asset_type, status, date_from, date_to, min_duration_ms, max_duration_ms
\* that the request sets, whichever source returned it.
C7_ResultsSatisfyFilters ==
    Responded =>
        \A r \in Range(response.results) :
            SatisfiesFilters(Asset(r.asset_id), request.filters)

\* C8: when collections is set every returned asset is in one of the listed
\* collections, and when persons is set it is linked to one of the persons.
C8_CollectionAndPersonFilters ==
    Responded =>
        \A r \in Range(response.results) :
            /\ request.filters.collections # {} =>
                   Asset(r.asset_id).collections \cap request.filters.collections # {}
            /\ request.filters.persons # {} =>
                   Asset(r.asset_id).persons \cap request.filters.persons # {}

\* C9: the results are the slice [offset, offset + limit) of the full ranked
\* list, and total is the length of that list: the number of entities the
\* adapters matched.
C9_PageIsSliceOfRanking ==
    Responded =>
        LET full == sorted_results
            n == Len(response.results)
            left == Len(full) - request.offset
        IN  /\ response.total = Len(full)
            /\ response.total = Cardinality({ Candidate(c).asset_id : c \in Candidates })
            /\ n = (IF left <= 0 THEN 0 ELSE Min(request.limit, left))
            /\ \A i \in 1..n : response.results[i] = FormatResult(full[request.offset + i])

\* a page from the middle of the ranked list
C9_Witness ==
    /\ Responded
    /\ request.offset >= 1
    /\ Len(response.results) >= 1
    /\ response.total > request.offset + request.limit

\* C10: page(o, a) followed by page(o + a, b) is page(o, a + b), for the
\* calls of one session over the same store, with no failure in any.
C10_PagesConcatenate ==
    (Responded /\ raised = NoneStr) =>
        LET all == Append(calls, response)
        IN  \A i, j, k \in 1..Len(all) :
                (/\ all[i].offset = all[k].offset
                 /\ all[j].offset = all[i].offset + all[i].limit
                 /\ all[k].limit = all[i].limit + all[j].limit)
                    => Ranking(all[i].results) \o Ranking(all[j].results)
                           = Ranking(all[k].results)

\* the request flag of a source ("keywords" is the flag of source "keyword")
ModeEnabled(s) ==
    CASE s = "transcription" -> request.modes.transcription
      [] s = "scene" -> request.modes.scene
      [] s = "keyword" -> request.modes.keywords
      [] s = "metadata" -> request.modes.metadata
      [] s = "face" -> request.modes.face

\* C11: modes_used names a mode if and only if the mode was enabled in the
\* request, its adapter was called and it returned at least one candidate;
\* a disabled mode is never named and no mode is named twice.
C11_ModesUsedExact ==
    Responded =>
        /\ \A s \in SourceSet :
               s \in Range(response.modes_used)
                   <=> (ModeEnabled(s) /\ s \in invoked /\ returned[s] # <<>>)
        /\ Range(response.modes_used) \subseteq SourceSet
        /\ \A i, j \in 1..Len(response.modes_used) :
               i # j => response.modes_used[i] # response.modes_used[j]

\* one mode is named, one was called and returned nothing, one is disabled
\* although the store has rows for it
C11_Witness ==
    /\ Responded
    /\ response.modes_used # <<>>
    /\ \E s \in invoked : returned[s] = <<>> /\ raised # s
    /\ ~request.modes.metadata
    /\ \E r \in store : r.tbl = "assets" /\ r.tenant_id = request.tenant_id

\* C12: with the face mode enabled and no face_image, the face adapter is
\* never called, "face" is not in modes_used, nothing is raised by the face
\* path, and every other enabled mode is searched.
C12_FaceModeWithoutImage ==
    (pc # "idle" /\ request.modes.face /\ request.face_image = NoneStr) =>
        /\ "face" \notin invoked
        /\ "face" \notin Range(modes_used)
        /\ raised # "face"
        /\ failure # "face"
        /\ Responded =>
               /\ "face" \notin Range(response.modes_used)
               /\ \A s \in SourceSet \ {"face"} : ModeEnabled(s) => s \in invoked
               /\ \A r \in Range(response.results) :
                      \A m \in Range(r.matches) : m.type # "face"

\* the store has a face of the tenant above the threshold, another mode
\* found something, and the request has no image
C12_Witness ==
    /\ Responded
    /\ request.modes.face
    /\ request.face_image = NoneStr
    /\ \E r \in store : /\ r.tbl = "asset_faces"
                        /\ r.rank >= FaceThreshold
                        /\ r.tenant_id = request.tenant_id
    /\ response.modes_used # <<>>

\* C13: of two results of one search, the one with strictly more matches has
\* the strictly higher combined_score, and results with equally many matches
\* have the same score: the score depends on the number of matches only.
C13_MoreMatchesHigherScore ==
    Responded =>
        \A r1, r2 \in Range(sorted_results) :
            /\ Len(r1.matches) > Len(r2.matches)
                   => r1.combined_score > r2.combined_score
            /\ Len(r1.matches) = Len(r2.matches)
                   => r1.combined_score = r2.combined_score

\* a result with two weak matches next to a result with one strong match
C13_Witness ==
    /\ Responded
    /\ \E r1, r2 \in Range(response.results) :
           /\ Len(r1.matches) > Len(r2.matches)
           /\ \A m1 \in Range(r1.matches) :
                  \A m2 \in Range(r2.matches) : m1.score < m2.score

\* the worked scenario: only the metadata and keyword modes are on, the
\* metadata adapter returned A with score 0.8 and B with score 0.3, the
\* keyword adapter returned A for a manual keyword (score 1.0)
Scenario(A, B) ==
    /\ Responded
    /\ raised = NoneStr
    /\ request.modes = MetadataAndKeywords
    /\ A # B
    /\ Len(returned["metadata"]) = 2
    /\ { <<c.asset_id, c.match.score>> : c \in Range(returned["metadata"]) }
           = { <<A, 8>>, <<B, 3>> }
    /\ Len(returned["keyword"]) = 1
    /\ returned["keyword"][1].asset_id = A
    /\ returned["keyword"][1].match.score = ManualRank

ScenarioAssets == { r.asset_id : r \in Universe }

\* C14: in the scenario both A and B are returned, A with the higher
\* combined_score, and modes_used is ["keyword", "metadata"]: the keyword
\* block of search() runs before the metadata block.
C14_ScenarioKeywordThenMetadata ==
    \A A, B \in ScenarioAssets :
        Scenario(A, B) =>
            /\ \E r \in Range(response.results) : r.asset_id = A
            /\ \E r \in Range(response.results) : r.asset_id = B
            /\ \A ra, rb \in Range(response.results) :
                   (ra.asset_id = A /\ rb.asset_id = B)
                       => ra.combined_score > rb.combined_score
            /\ response.modes_used = <<"keyword", "metadata">>

\* the scenario with the filter asset_type = "video"
C14_Witness ==
    \E A, B \in ScenarioAssets :
        /\ Scenario(A, B)
        /\ request.filters.asset_type = "video"
        /\ response.total = 2

\* C14 as stated: in the scenario both A and B are returned, A with the
\* higher combined_score, and modes_used is ["metadata", "keyword"].
C14_ScenarioMetadataThenKeyword ==
    \A A, B \in ScenarioAssets :
        Scenario(A, B) =>
            /\ \E r \in Range(response.results) : r.asset_id = A
            /\ \E r \in Range(response.results) : r.asset_id = B
            /\ \A ra, rb \in Range(response.results) :
                   (ra.asset_id = A /\ rb.asset_id = B)
                       => ra.combined_score > rb.combined_score
            /\ response.modes_used = <<"metadata", "keyword">>

\* the row of the store a match was built from
RowOf(m) == CHOOSE r \in Universe : r.id = m.row

\* C15: a keyword match has score 1.0 when its row is of asset_keywords and
\* the stored confidence, 0 included, when its row is of
\* ai_extracted_keywords.
C15_KeywordScoreIsStoredConfidence ==
    Responded =>
        \A r \in Range(response.results) :
            \A m \in Range(r.matches) :
                m.type = "keyword" =>
                    /\ RowOf(m).tbl = "asset_keywords" => m.score = ManualRank
                    /\ RowOf(m).tbl = "ai_extracted_keywords"
                           => m.score = RowOf(m).rank

\* C16: every match of type "face" in the ranked list and in the response
\* has a similarity of at least 0.5, and an entity whose stored faces are
\* all below 0.5 has no face match.
C16_FaceThreshold ==
    Responded =>
        \A r \in Range(sorted_results) \cup Range(response.results) :
            /\ \A m \in Range(r.matches) :
                   m.type = "face" => m.score >= FaceThreshold
            /\ (\A f \in store : (f.tbl = "asset_faces" /\ f.asset_id = r.asset_id)
                                     => f.rank < FaceThreshold)
                   => \A m \in Range(r.matches) : m.type # "face"

\* the face adapter ran without error over a face below the threshold, whose
\* asset another mode found, and a face above it
C16_Witness ==
    /\ Responded
    /\ "face" \in invoked
    /\ raised = NoneStr
    /\ \E r1, r2 \in Range(response.results) :
           /\ \E f \in store : /\ f.tbl = "asset_faces"
                               /\ f.asset_id = r1.asset_id
                               /\ f.tenant_id = request.tenant_id
                               /\ f.rank < FaceThreshold
           /\ \A m \in Range(r1.matches) : m.type # "face"
           /\ \E m \in Range(r2.matches) : m.type = "face"

\* C17: the list get_suggestions returns is sorted by count, non-increasing,
\* over keyword and person suggestions together.
C17_SuggestionsSortedByCount ==
    suggest_pc = "done" =>
        \A i, j \in 1..Len(suggestions) :
            i < j => suggestions[i].count >= suggestions[j].count

\* C18: after any sequence of add, bulk add and remove requests on a
\* collection, rejected requests and interleaved sessions included, the
\* item_count of the collection is the number of its collection_items
\* rows.
C18_ItemCountIsRowCount ==
    collection_row.item_count = Cardinality(collection_items)

\* C19: a register request for an email already registered for the tenant
\* creates no user, so no two users of one tenant have the same email.
C19_EmailUniquePerTenant ==
    \A u1, u2 \in users :
        (u1.tenant_id = u2.tenant_id /\ u1.email = u2.email) => u1 = u2

\* a request whose check finds the email registered ends with 400 and
\* leaves the users as they are
DuplicateRejected ==
    [][\A s \in SessionIds :
           (/\ register_sessions[s].pc = "existing"
            /\ register_sessions'[s].pc # "existing"
            /\ UsersWith(register_sessions[s].tenant_id,
                         register_sessions[s].request.email) # {})
               => /\ register_sessions'[s].status \in {400, 500}
                  /\ users' = users]_vars

\* the _merge_results calls of search() made in another order of the sources
RECURSIVE MergeLists(_, _)
MergeLists(results, order) ==
    IF order = <<>> THEN results
    ELSE MergeLists(MergeResults(results, returned[Head(order)], Head(order)),
                    Tail(order))

\* the scores of lines 104-105 on a merged map
Scored(results) ==
    [i \in 1..Len(results) |->
        [results[i] EXCEPT !.combined_score = CalculateRrfScore(results[i].matches)]]

\* every order of the sources whose adapter returned candidates
MergeOrders == AnyOrder({ s \in SourceSet : returned[s] # <<>> })

\* how often m is in matches
Occurrences(matches, m) == Cardinality({ i \in 1..Len(matches) : matches[i] = m })

\* a per-entity record with its matches as a multiset
Aggregate(e) ==
    [asset_id |-> e.asset_id,
     description |-> e.description,
     asset_type |-> e.asset_type,
     status |-> e.status,
     duration_ms |-> e.duration_ms,
     created_at |-> e.created_at,
     matches |-> [m \in Range(e.matches) |-> Occurrences(e.matches, m)],
     combined_score |-> e.combined_score]

\* C20: merging the adapters' lists in any other order gives the same
\* per-entity records (entity ids, display fields, accumulated matches,
\* combined_score) and the same final ranked list.
C20_MergeOrderIrrelevant ==
    (Responded /\ raised = NoneStr) =>
        \A order \in MergeOrders :
            LET merged == Scored(MergeLists(<<>>, order))
            IN  /\ { Aggregate(e) : e \in Range(merged) }
                       = { Aggregate(e) : e \in Range(results_by_asset) }
                /\ Ranking(SortResults(merged)) = Ranking(sorted_results)

\* what every merge order keeps: the entity ids, one record per entity, the
\* matches of an entity as a multiset, its combined_score, and the scores
\* of the ranked list position by position
MergeOrderKeepsScores ==
    (Responded /\ raised = NoneStr) =>
        \A order \in MergeOrders :
            LET merged == Scored(MergeLists(<<>>, order))
                Core(e) == [Aggregate(e) EXCEPT !.description = NoneStr]
            IN  /\ Len(merged) = Len(results_by_asset)
                /\ { Core(e) : e \in Range(merged) }
                       = { Core(e) : e \in Range(results_by_asset) }
                /\ [i \in 1..Len(merged) |-> SortResults(merged)[i].combined_score]
                       = [i \in 1..Len(sorted_results) |->
                             sorted_results[i].combined_score]

\* the candidates for an entity, over all adapters
CandidatesFor(asset_id) == { c \in Candidates : Candidate(c).asset_id = asset_id }

SourcePosition(s) == CHOOSE i \in 1..Len(Sources) : Sources[i] = s

\* candidate c is merged before candidate d
MergedBefore(c, d) ==
    \/ SourcePosition(c[1]) < SourcePosition(d[1])
    \/ c[1] = d[1] /\ c[2] < d[2]

\* the description of the first candidate, in merge order, that has one
FirstDescription(asset_id) ==
    LET populated == { c \in CandidatesFor(asset_id) :
                           Candidate(c).description # NoneStr }
    IN  IF populated = {} THEN NoneStr
        ELSE Candidate(CHOOSE c \in populated :
                           \A d \in populated : c = d \/ MergedBefore(c, d)).description

\* C22: every display field of a result has the value of the first source,
\* in merge order, that populated it: a description the first source of the
\* entity left empty is filled from a later source that has it.
C22_FirstPopulatedValue ==
    Responded =>
        \A r \in Range(response.results) :
            /\ r.description = FirstDescription(r.asset_id)
            /\ \A c \in CandidatesFor(r.asset_id) :
                   /\ r.asset_type = Candidate(c).asset_type
                   /\ r.status = Candidate(c).status
                   /\ r.duration_ms = Candidate(c).duration_ms
                   /\ r.created_at = Candidate(c).created_at

\* the sources whose block of search() runs for the request
EnabledSources ==
    { s \in SourceSet : ModeEnabled(s) /\ (s = "face" => FaceRequested(request)) }

\* C23: each adapter's list is merged when that adapter returns, before the
\* next adapter is called; only ranking, pagination and the response wait
\* for every enabled adapter: nothing is ranked or returned before all of
\* them have returned, and what is ranked is the complete candidate set.
C23_RankAfterAllAdapters ==
    /\ pc \in {"rank", "responded"} => EnabledSources \subseteq invoked
    /\ pc \notin {"rank", "responded"} =>
           (sorted_results = <<>> /\ response = NoResponse)
    /\ \A r \in Range(results_by_asset) :
           \A m \in Range(r.matches) : m.type \in invoked
    /\ Responded =>
           /\ response.total = Len(sorted_results)
           /\ { r.asset_id : r \in Range(sorted_results) }
                  = { Candidate(c).asset_id : c \in Candidates }
           /\ Len(response.results) <= response.limit

\* a response made of the lists of three adapters
C23_Witness ==
    /\ Responded
    /\ Len(response.modes_used) >= 3
    /\ request.modes.face
    /\ "face" \in invoked

\* C23 as stated: nothing is merged into the per-entity map before every
\* enabled adapter has completed or failed.
C23_FanInBarrier ==
    results_by_asset # <<>> => EnabledSources \subseteq invoked

\* C24: no step of SearchService.search or SearchService.get_suggestions
\* inserts, updates or deletes a row of any table, whether the request
\* succeeds or an adapter fails.
C24_StoreUnchanged ==
    [][/\ store' = store
       /\ keyword_rows' = keyword_rows
       /\ person_rows' = person_rows]_vars

\* a search answered although an adapter failed, and suggestions returned,
\* over tables that have rows
C24_Witness ==
    /\ Responded
    /\ raised # NoneStr
    /\ store # {}
    /\ response.total >= 1
    /\ suggest_pc = "done"
    /\ suggestions # <<>>

\* C25: combined_score is a function of the number of matches: entities
\* with equally many matches have the same score whatever the sources and
\* scores of the matches, and the score computed on the matches as
\* accumulated, unsorted, is the score computed on them sorted.
C25_ScoreDependsOnCountOnly ==
    Responded =>
        /\ \A r1, r2 \in Range(sorted_results) :
               Len(r1.matches) = Len(r2.matches)
                   => r1.combined_score = r2.combined_score
        /\ \A r \in Range(sorted_results) :
               r.combined_score
                   = RrfSum(r.matches, 1) * (5 + (Len(r.matches) - 1))

\* two results with equally many matches, of different sources and scores
C25_Witness ==
    /\ Responded
    /\ \E r1, r2 \in Range(sorted_results) :
           /\ r1.asset_id # r2.asset_id
           /\ Len(r1.matches) = Len(r2.matches)
           /\ { m.type : m \in Range(r1.matches) } # { m.type : m \in Range(r2.matches) }
           /\ { m.score : m \in Range(r1.matches) } # { m.score : m \in Range(r2.matches) }

\* C26: every match of a search response was built from a row of the store
\* whose tenant_id is the tenant of the request; no match comes from a row
\* of another tenant.
C26_TenantIsolation ==
    Responded =>
        \A r \in Range(response.results) :
            \A m \in Range(r.matches) :
                /\ RowOf(m) \in store
                /\ RowOf(m).tenant_id = request.tenant_id

\* a response with a match for tenant 1 over a store that also has a
\* transcription or a face of tenant 2, with the text and face adapters run
C26_Witness ==
    /\ Responded
    /\ request.tenant_id = 1
    /\ raised = NoneStr
    /\ {"transcription", "face"} \subseteq invoked
    /\ \E row \in store : /\ row.tenant_id = 2
                          /\ row.tbl \in {"asset_transcriptions", "asset_faces"}
    /\ response.total >= 1

\* C27: with rotation enabled, each refresh token is exchanged successfully
\* at most once, under any interleaving of refresh, logout and logout-all
\* requests: no token hash has more than one /refresh answered 200.
C27_ExchangedAtMostOnce ==
    \A h \in DOMAIN exchanged : exchanged[h] <= 1

\* C28: is_allowed admits at most `requests` calls of the identifier within
\* any sliding window of window_seconds, for every interleaving of
\* concurrent calls, and a refused call adds no entry to the window.
C28_AtMostRequestsPerWindow ==
    /\ \A t \in 0..MaxClock :
           Cardinality({ a \in admitted : t - window_seconds < a /\ a <= t })
               <= requests
    /\ \A s \in SessionIds :
           limiter_sessions[s].allowed = "refused" =>
               \A e \in limiter_window : e \in admitted

\* C30: in synchronous job processing, once every job of an asset has
\* completed through _process_job_sync the asset is "available", for any
\* order and interleaving in which its jobs are processed; and an asset
\* whose job failed last was not made available by that job.
C30_AllCompletedIsAvailable ==
    (\A s \in SessionIds : job_sessions[s].pc = "idle") =>
        \A a \in JobAssets :
            (\A j \in JobIds : jobs[j].asset_id = a
                               => jobs[j].status = "completed")
            => asset_status[a] = "available"

\* C29: retry_job changes a job only when its status is failed or
\* cancelled, and then resets it to pending with progress 0 and cleared
\* error_message, started_at, completed_at and worker_id; for a job in any
\* other status it answers 400 and leaves the job unchanged, and for an
\* unknown id it answers 404.
C29_RetryOnlyFailedOrCancelled ==
    [][/\ retried'.job_id \notin JobIds =>
              /\ retried'.status_code = 404
              /\ jobs' = jobs
       /\ \A j \in JobIds :
              /\ (retried'.job_id = j
                  /\ jobs[j].status \in {"failed", "cancelled"}) =>
                     /\ retried'.status_code = 200
                     /\ jobs'[j].status = "pending"
                     /\ jobs'[j].progress = 0
                     /\ jobs'[j].error_message = NoneStr
                     /\ jobs'[j].started_at = NoneStr
                     /\ jobs'[j].completed_at = NoneStr
                     /\ jobs'[j].worker_id = NoneStr
              /\ (retried'.job_id = j
                  /\ jobs[j].status \in {"pending", "processing", "completed"}) =>
                     /\ retried'.status_code = 400
                     /\ jobs' = jobs
              /\ jobs'[j] # jobs[j] =>
                     /\ retried'.job_id = j
                     /\ jobs[j].status \in {"failed", "cancelled"}]_vars

\* a retry was answered 200 and left the job pending, after an earlier
\* retry request, while another job is still failed
C29_Witness ==
    /\ retried.status_code = 200
    /\ retried.found
    /\ jobs[retried.job_id] = UploadedJob(retried.job_id, "pending")
    /\ job_requests = 2
    /\ \E j \in JobIds : jobs[j].status = "failed"

====
